---------------------------- MODULE Spec2Model ----------------------------
(***************************************************************************)
(* A model of waffles' WaveformSet (src/src/waffles/WaveformSet.py): the   *)
(* collection of waveforms, its constructor and derived attributes, the    *)
(* analyse dispatcher, the grid of waveform indices and the mean waveform. *)
(*                                                                         *)
(* Conventions.  Python indices are 0-based and are kept 0-based in every  *)
(* value the program returns or stores (index lists, provenance tuples);   *)
(* At(s, i) reads the i-th element of a Python list held as a sequence.    *)
(* None is the empty sequence <<>> and a present optional value v is <<v>>.*)
(* A call of a method ends either by returning or by raising: `raised` is  *)
(* NoError after a return and the exception after a raise.  An exception   *)
(* built by generate_exception_message(code, where, ...) is the record     *)
(* [type |-> "Exception", where |-> where, code |-> code].                 *)
(***************************************************************************)
EXTENDS Integers, Sequences, FiniteSets, TLC

VARIABLES
    phase,               \* "new": no object yet; "ready": constructed; "failed": __init__ raised
    waveforms,           \* self.__waveforms
    points_per_wf,       \* self.__points_per_wf
    runs,                \* self.__runs
    available_channels,  \* self.__available_channels
    mean_adcs,           \* self.__mean_adcs (None or a WaveformAdcs)
    mean_adcs_idcs,      \* self.__mean_adcs_idcs (None or a tuple of int)
    call,                \* the last call made: [op |-> ..., args |-> ...]
    ret,                 \* what the last call returned (when it returned)
    raised,              \* what the last call raised (NoError when it returned)
    invoked              \* the calls of Waveform.analyse the last call made

vars == <<phase, waveforms, points_per_wf, runs, available_channels,
          mean_adcs, mean_adcs_idcs, call, ret, raised, invoked>>

collection == <<waveforms, points_per_wf, runs, available_channels,
                mean_adcs, mean_adcs_idcs>>

---------------------------------------------------------------------------
(* Bounds of the model.                                                    *)

MaxWfs == 2        \* waveforms given to the constructor
MaxPoints == 2     \* entries of an Adcs array
MaxAdc == 4        \* largest entry an Adcs array may hold
MaxIdcs == 3       \* entries of a wf_idcs list
MaxLimits == 3     \* entries of a baseline_limits list
MaxRows == 2       \* rows of a grid
MaxCols == 2       \* columns of a grid
MaxPerAxes == 2    \* largest wfs_per_axes and max_wfs_per_axes asked for

RunNumbers == {10, 11}
Endpoints == {104, 105}
Channels == {1, 2}
TimeSteps == {16, 32}

---------------------------------------------------------------------------
(* Values.                                                                 *)

None == <<>>
Some(v) == <<v>>

NoError == [type |-> "None", where |-> "", code |-> 0]
Exception(where, code) == [type |-> "Exception", where |-> where, code |-> code]
IndexError(where) == [type |-> "IndexError", where |-> where, code |-> 0]

Return(v) == [exc |-> NoError, val |-> v]
Throw(e) == [exc |-> e, val |-> <<>>]

At(s, i) == s[i + 1]

\* A Waveform object: the attributes the collection reads, and its Analyses.
Waveform(timestep, adcs, run, endpoint, channel) ==
    [TimeStep_ns |-> timestep, Adcs |-> adcs, RunNumber |-> run,
     Endpoint |-> endpoint, Channel |-> channel, Analyses |-> <<>>]

SeqsUpTo(S, n) == UNION {[1..k -> S] : k \in 0..n}

---------------------------------------------------------------------------
(* WaveformSet.__init__ and the methods it calls.                          *)

\* The loop of check_length_homogeneity started one waveform too late.
check_length_homogeneity_from_2(wfs) ==
    IF Len(wfs) = 0
    THEN Throw(IndexError("WaveformSet.check_length_homogeneity()"))
    ELSE LET length == Len(At(wfs, 0).Adcs)
         IN  Return(\A i \in 2..(Len(wfs) - 1) : Len(At(wfs, i).Adcs) = length)

\* len(self.__waveforms[0].Adcs) raises IndexError on an empty list.
check_length_homogeneity(wfs) ==
    IF Len(wfs) = 0
    THEN Throw(IndexError("WaveformSet.check_length_homogeneity()"))
    ELSE LET length == Len(At(wfs, 0).Adcs)
         IN  Return(\A i \in 1..(Len(wfs) - 1) : Len(At(wfs, i).Adcs) = length)

RECURSIVE update_runs_from(_, _, _)
update_runs_from(wfs, i, rs) ==
    IF i >= Len(wfs) THEN rs
    ELSE update_runs_from(wfs, i + 1, rs \cup {At(wfs, i).RunNumber})

update_runs(wfs, rs) == update_runs_from(wfs, 0, rs)

\* The endpoint's set started afresh at every waveform.
add_channel_resetting(ac, wf) ==
    [e \in DOMAIN ac \cup {wf.Endpoint} |->
        IF e = wf.Endpoint THEN {wf.Channel} ELSE ac[e]]

\* self.__available_channels[wf.Endpoint].add(wf.Channel), a KeyError
\* starting the endpoint's set.
add_channel(ac, wf) ==
    IF wf.Endpoint \in DOMAIN ac
    THEN [ac EXCEPT ![wf.Endpoint] = @ \cup {wf.Channel}]
    ELSE [e \in DOMAIN ac \cup {wf.Endpoint} |->
             IF e = wf.Endpoint THEN {wf.Channel} ELSE ac[e]]

RECURSIVE update_available_channels_from(_, _, _)
update_available_channels_from(wfs, i, ac) ==
    IF i >= Len(wfs) THEN ac
    ELSE update_available_channels_from(wfs, i + 1, add_channel(ac, At(wfs, i)))

update_available_channels(wfs, ac) == update_available_channels_from(wfs, 0, ac)

NoCall == [op |-> "none", args |-> <<>>]
NoReturn == [grid |-> <<>>, mean |-> None, output |-> <<>>]

Init ==
    /\ phase = "new"
    /\ waveforms = <<>>
    /\ points_per_wf = 0
    /\ runs = {}
    /\ available_channels = <<>>
    /\ mean_adcs = None
    /\ mean_adcs_idcs = None
    /\ call = NoCall
    /\ ret = NoReturn
    /\ raised = NoError
    /\ invoked = <<>>

\* WaveformSet(*wfs).  When __init__ raises no object exists.
Construct(wfs) ==
    /\ phase = "new"
    /\ call' = [op |-> "__init__", args |-> [waveforms |-> wfs]]
    /\ ret' = NoReturn
    /\ invoked' = <<>>
    /\ LET homogeneous == check_length_homogeneity(wfs)
           error == IF homogeneous.exc # NoError THEN homogeneous.exc
                    ELSE IF ~homogeneous.val
                         THEN Exception("WaveformSet.__init__()", 1)
                         ELSE NoError
       IN  /\ raised' = error
           /\ IF error # NoError
              THEN /\ phase' = "failed"
                   /\ UNCHANGED collection
              ELSE /\ phase' = "ready"
                   /\ waveforms' = wfs
                   /\ points_per_wf' = Len(At(wfs, 0).Adcs)
                   /\ runs' = update_runs(wfs, {})
                   /\ available_channels' = update_available_channels(wfs, <<>>)
                   /\ mean_adcs' = None
                   /\ mean_adcs_idcs' = None

---------------------------------------------------------------------------
(* WaveformSet.analyse and the checks it makes.                            *)

\* baseline_limits[0] and baseline_limits[-1] raise IndexError on an empty
\* list, whose length is even.
baseline_limits_are_well_formed(baseline_limits, PointsPerWf) ==
    LET n == Len(baseline_limits)
    IN  IF n % 2 # 0 THEN Return(FALSE)
        ELSE IF n = 0
             THEN Throw(IndexError("WaveformSet.baseline_limits_are_well_formed()"))
        ELSE IF At(baseline_limits, 0) < 0 THEN Return(FALSE)
        ELSE IF \E i \in 0..(n - 2) :
                    At(baseline_limits, i) >= At(baseline_limits, i + 1)
             THEN Return(FALSE)
        ELSE IF At(baseline_limits, n - 1) > PointsPerWf - 1 THEN Return(FALSE)
        ELSE Return(TRUE)

subinterval_is_well_formed(i_low, i_up, PointsPerWf) ==
    IF i_low < 0 THEN FALSE
    ELSE IF i_up <= i_low THEN FALSE
    ELSE IF i_up > PointsPerWf - 1 THEN FALSE
    ELSE TRUE

\* The attributes of a WfAna object that analyse may be asked for by name.
\* For each: whether it is callable, the names of its parameters after
\* self, the annotation of its first parameter and its return annotation.
WfAna ==
    [standard_analyser |->
        [callable |-> TRUE, parameters |-> <<"waveform", "return_peaks_properties">>,
         annotation |-> "WaveformAdcs", return_annotation |-> "Tuple[WfAnaResult, bool, dict]"],
     class_hinted_analyser |->
        [callable |-> TRUE, parameters |-> <<"waveform">>,
         annotation |-> "<class WaveformAdcs>", return_annotation |-> "Tuple[WfAnaResult, bool, dict]"],
     BaselineLimits |->
        [callable |-> FALSE, parameters |-> <<>>,
         annotation |-> "", return_annotation |-> ""],
     no_parameter_analyser |->
        [callable |-> TRUE, parameters |-> <<>>,
         annotation |-> "", return_annotation |-> "Tuple[WfAnaResult, bool, dict]"],
     wf_first_analyser |->
        [callable |-> TRUE, parameters |-> <<"wf", "waveform">>,
         annotation |-> "WaveformAdcs", return_annotation |-> "Tuple[WfAnaResult, bool, dict]"],
     unhinted_analyser |->
        [callable |-> TRUE, parameters |-> <<"waveform">>,
         annotation |-> "", return_annotation |-> "Tuple[WfAnaResult, bool, dict]"],
     dict_analyser |->
        [callable |-> TRUE, parameters |-> <<"waveform">>,
         annotation |-> "WaveformAdcs", return_annotation |-> "dict"]]

AnalyserNames == DOMAIN WfAna \cup {"missing_analyser"}

\* analyser_error without the check of the return annotation.
analyser_error_without_return_check(analyser_name) ==
    IF analyser_name \notin DOMAIN WfAna
    THEN Exception("WaveformSet.analyse()", 3)
    ELSE LET analyser == WfAna[analyser_name]
         IN  IF ~analyser.callable THEN Exception("WaveformSet.analyse()", 4)
             ELSE IF Len(analyser.parameters) = 0
                  THEN Exception("WaveformSet.analyse()", 8)
             ELSE IF At(analyser.parameters, 0) # "waveform"
                  THEN Exception("WaveformSet.analyse()", 5)
             ELSE IF analyser.annotation \notin {"WaveformAdcs", "<class WaveformAdcs>"}
                  THEN Exception("WaveformSet.analyse()", 6)
             ELSE NoError

\* Lines 287-320: the analyser is looked up by name and its signature read.
analyser_error(analyser_name) ==
    IF analyser_name \notin DOMAIN WfAna
    THEN Exception("WaveformSet.analyse()", 3)
    ELSE LET analyser == WfAna[analyser_name]
         IN  IF ~analyser.callable THEN Exception("WaveformSet.analyse()", 4)
             ELSE IF Len(analyser.parameters) = 0
                  THEN Exception("WaveformSet.analyse()", 8)
             ELSE IF At(analyser.parameters, 0) # "waveform"
                  THEN Exception("WaveformSet.analyse()", 5)
             ELSE IF analyser.annotation \notin {"WaveformAdcs", "<class WaveformAdcs>"}
                  THEN Exception("WaveformSet.analyse()", 6)
             ELSE IF analyser.return_annotation # "Tuple[WfAnaResult, bool, dict]"
                  THEN Exception("WaveformSet.analyse()", 7)
             ELSE NoError

\* int_ul_ resolved to self.PointsPerWf, one past the last sample.
resolved_int_ul_past_the_end(int_ul, PointsPerWf) ==
    IF int_ul = None THEN PointsPerWf ELSE int_ul[1]

\* int_ul_: int_ul, or self.PointsPerWf - 1 when int_ul is None.
resolved_int_ul(int_ul, PointsPerWf) ==
    IF int_ul = None THEN PointsPerWf - 1 ELSE int_ul[1]

\* Lines 275-320: the exception analyse raises before its loop, or NoError.
analyse_precondition_error(analyser_name, baseline_limits, int_ll, int_ul, PointsPerWf) ==
    LET well_formed == baseline_limits_are_well_formed(baseline_limits, PointsPerWf)
    IN  IF well_formed.exc # NoError THEN well_formed.exc
        ELSE IF ~well_formed.val THEN Exception("WaveformSet.analyse()", 1)
        ELSE IF ~subinterval_is_well_formed(int_ll,
                                            resolved_int_ul(int_ul, PointsPerWf),
                                            PointsPerWf)
             THEN Exception("WaveformSet.analyse()", 2)
        ELSE analyser_error(analyser_name)

RECURSIVE SumOver(_, _, _)
SumOver(adcs, lo, hi) ==
    IF lo > hi THEN 0 ELSE At(adcs, lo) + SumOver(adcs, lo + 1, hi)

\* Waveform.analyse (WaveformAdcs.analyse): it adds a WfAna object under
\* `label` to the waveform's Analyses and returns a dictionary.  When the
\* label is taken and overwrite is False the waveform decides: it raises
\* or it leaves its Analyses as they are (on_taken).
WaveformAnalyse(wf, label, analyser_name, baseline_limits, int_ll, int_ul, overwrite, on_taken) ==
    IF label \in DOMAIN wf.Analyses /\ ~overwrite
    THEN IF on_taken = "raise"
         THEN Throw(Exception("WaveformAdcs.analyse()", 1))
         ELSE Return([wf |-> wf, output |-> [integral |-> 0, analysed |-> FALSE]])
    ELSE LET wfana == [analyser_name |-> analyser_name,
                       baseline_limits |-> baseline_limits,
                       int_ll |-> int_ll, int_ul |-> int_ul]
         IN  Return([wf |-> [wf EXCEPT !.Analyses =
                                [l \in DOMAIN wf.Analyses \cup {label} |->
                                    IF l = label THEN wfana ELSE wf.Analyses[l]]],
                     output |-> [integral |-> SumOver(wf.Adcs, int_ll, int_ul),
                                 analysed |-> TRUE]])

\* One call self.__waveforms[i].analyse(label, analyser_name, baseline_limits,
\* int_ll = int_ll, int_ul = int_ul_, overwrite = overwrite) and what it
\* returned (None when it raised).
Invocation(i, label, analyser_name, baseline_limits, int_ll, int_ul, overwrite, returned) ==
    [index |-> i, label |-> label, analyser_name |-> analyser_name,
     baseline_limits |-> baseline_limits, int_ll |-> int_ll, int_ul |-> int_ul,
     overwrite |-> overwrite, returned |-> returned]

\* The loop with a call that raises skipped (try ... except: continue).
RECURSIVE analyse_loop_continuing(_, _, _, _, _, _, _, _, _, _, _)
analyse_loop_continuing(wfs, i, output, calls, label, analyser_name, baseline_limits, int_ll, int_ul, overwrite, on_taken) ==
    IF i >= Len(wfs)
    THEN [exc |-> NoError, wfs |-> wfs, output |-> output, invoked |-> calls]
    ELSE LET r == WaveformAnalyse(At(wfs, i), label, analyser_name, baseline_limits,
                                  int_ll, int_ul, overwrite, on_taken)
         IN  IF r.exc # NoError
             THEN analyse_loop_continuing(wfs, i + 1, output,
                               Append(calls, Invocation(i, label, analyser_name,
                                         baseline_limits, int_ll, int_ul, overwrite, None)),
                               label, analyser_name,
                               baseline_limits, int_ll, int_ul, overwrite, on_taken)
             ELSE analyse_loop_continuing([wfs EXCEPT ![i + 1] = r.val.wf], i + 1,
                               Append(output, r.val.output),
                               Append(calls, Invocation(i, label, analyser_name,
                                         baseline_limits, int_ll, int_ul, overwrite,
                                         Some(r.val.output))),
                               label, analyser_name,
                               baseline_limits, int_ll, int_ul, overwrite, on_taken)

\* Lines 321-332: the loop over the waveforms, from waveform i on.  A call
\* that raises ends the loop; the waveforms analysed before it stay analysed.
\* output[k + 1] is the value under the key k of the dictionary.
RECURSIVE analyse_loop(_, _, _, _, _, _, _, _, _, _, _)
analyse_loop(wfs, i, output, calls, label, analyser_name, baseline_limits, int_ll, int_ul, overwrite, on_taken) ==
    IF i >= Len(wfs)
    THEN [exc |-> NoError, wfs |-> wfs, output |-> output, invoked |-> calls]
    ELSE LET r == WaveformAnalyse(At(wfs, i), label, analyser_name, baseline_limits,
                                  int_ll, int_ul, overwrite, on_taken)
         IN  IF r.exc # NoError
             THEN [exc |-> r.exc, wfs |-> wfs, output |-> output,
                   invoked |-> Append(calls, Invocation(i, label, analyser_name,
                                         baseline_limits, int_ll, int_ul, overwrite, None))]
             ELSE analyse_loop([wfs EXCEPT ![i + 1] = r.val.wf], i + 1,
                               Append(output, r.val.output),
                               Append(calls, Invocation(i, label, analyser_name,
                                         baseline_limits, int_ll, int_ul, overwrite,
                                         Some(r.val.output))),
                               label, analyser_name,
                               baseline_limits, int_ll, int_ul, overwrite, on_taken)

\* self.analyse(label, analyser_name, baseline_limits, int_ll = int_ll,
\*              int_ul = int_ul, overwrite = overwrite)
Analyse(label, analyser_name, baseline_limits, int_ll, int_ul, overwrite, on_taken) ==
    /\ phase = "ready"
    /\ call' = [op |-> "analyse",
                args |-> [label |-> label, analyser_name |-> analyser_name,
                          baseline_limits |-> baseline_limits, int_ll |-> int_ll,
                          int_ul |-> int_ul, overwrite |-> overwrite,
                          on_taken |-> on_taken]]
    /\ LET error == analyse_precondition_error(analyser_name, baseline_limits,
                                               int_ll, int_ul, points_per_wf)
       IN  IF error # NoError
           THEN /\ raised' = error
                /\ ret' = NoReturn
                /\ invoked' = <<>>
                /\ UNCHANGED waveforms
           ELSE LET done == analyse_loop(waveforms, 0, <<>>, <<>>, label, analyser_name,
                                         baseline_limits, int_ll,
                                         resolved_int_ul(int_ul, points_per_wf),
                                         overwrite, on_taken)
                IN  /\ raised' = done.exc
                    /\ ret' = IF done.exc = NoError
                              THEN [NoReturn EXCEPT !.output = done.output]
                              ELSE NoReturn
                    /\ invoked' = done.invoked
                    /\ waveforms' = done.wfs
    /\ UNCHANGED <<phase, points_per_wf, runs, available_channels,
                   mean_adcs, mean_adcs_idcs>>

---------------------------------------------------------------------------
(* Callables given as wf_filter or wf_selector.  Of a callable the program *)
(* reads its identity, its signature (inspect.signature) and the value it  *)
(* returns on a waveform and arguments.  `id` is the identity, `body` the  *)
(* function computed.                                                      *)

Callable(id, parameters, annotation, return_annotation, body) ==
    [id |-> id, callable |-> TRUE, parameters |-> parameters,
     annotation |-> annotation, return_annotation |-> return_annotation,
     body |-> body]

\* The static methods of WaveformSet.
match_run ==
    Callable("WaveformSet.match_run", <<"waveform", "run">>,
             "Waveform", "bool", "RunNumber == run")
match_channel ==
    Callable("WaveformSet.match_channel", <<"waveform", "channel">>,
             "Waveform", "bool", "Channel == channel")
match_endpoint_and_channel ==
    Callable("WaveformSet.match_endpoint_and_channel",
             <<"waveform", "endpoint", "channel">>,
             "Waveform", "bool", "Endpoint == endpoint and Channel == channel")

\* wf_filter(waveform, *args)
Apply(f, waveform, args) ==
    CASE f.body = "RunNumber == run" -> waveform.RunNumber = At(args, 0)
      [] f.body = "Channel == channel" -> waveform.Channel = At(args, 0)
      [] f.body = "Endpoint == endpoint and Channel == channel" ->
            waveform.Endpoint = At(args, 0) /\ waveform.Channel = At(args, 1)
      [] f.body = "True" -> TRUE

---------------------------------------------------------------------------
(* WaveformSet.get_grid_of_wf_idcs and the methods it calls.               *)

grid_of_lists_is_well_formed(grid, nrows, ncols) ==
    IF nrows < 1 \/ ncols < 1
    THEN Throw(Exception("WaveformSet.grid_of_lists_is_well_formed()", 1))
    ELSE Return(/\ Len(grid) = nrows
                /\ \A i \in 1..Len(grid) : Len(grid[i]) = ncols)

get_2D_empty_nested_list(nrows, ncols) ==
    [i \in 1..nrows |-> [j \in 1..ncols |-> <<>>]]

\* The comprehension with the row stride taken from nrows.
get_2D_indices_nested_list_row_stride(indices_per_slot, nrows, ncols) ==
    IF nrows < 1 \/ ncols < 1
    THEN Throw(Exception("WaveformSet.get_2D_indices_nested_list()", 1))
    ELSE IF indices_per_slot < 1
         THEN Throw(Exception("WaveformSet.get_2D_indices_nested_list()", 2))
    ELSE Return([i \in 1..nrows |-> [j \in 1..ncols |->
                    [k \in 1..indices_per_slot |->
                        (k - 1) + indices_per_slot * ((j - 1) + (nrows * (i - 1)))]]])

get_2D_indices_nested_list(indices_per_slot, nrows, ncols) ==
    IF nrows < 1 \/ ncols < 1
    THEN Throw(Exception("WaveformSet.get_2D_indices_nested_list()", 1))
    ELSE IF indices_per_slot < 1
         THEN Throw(Exception("WaveformSet.get_2D_indices_nested_list()", 2))
    ELSE Return([i \in 1..nrows |-> [j \in 1..ncols |->
                    [k \in 1..indices_per_slot |->
                        (k - 1) + indices_per_slot * ((j - 1) + (ncols * (i - 1)))]]])

\* The loop of __get_grid_of_wf_idcs_by_run with the counter compared
\* before it is incremented: one index too many is kept.
RECURSIVE by_run_slot_late_break(_, _, _, _, _, _, _)
by_run_slot_late_break(wfs, k, slot, counter, args, fMaxIsSet, max_wfs_per_axes) ==
    IF k >= Len(wfs) THEN slot
    ELSE IF wfs[k + 1].RunNumber = args[1]
         THEN IF fMaxIsSet /\ counter = max_wfs_per_axes
              THEN Append(slot, k)
              ELSE by_run_slot_late_break(wfs, k + 1, Append(slot, k), counter + 1,
                                          args, fMaxIsSet, max_wfs_per_axes)
         ELSE by_run_slot_late_break(wfs, k + 1, slot, counter, args, fMaxIsSet,
                                     max_wfs_per_axes)

\* The loop over k of __get_grid_of_wf_idcs_by_run, from waveform k on,
\* `slot` being blank_grid[i][j] and `counter` the matches counted so far.
RECURSIVE by_run_slot(_, _, _, _, _, _, _)
by_run_slot(wfs, k, slot, counter, args, fMaxIsSet, max_wfs_per_axes) ==
    IF k >= Len(wfs) THEN slot
    ELSE IF Apply(match_run, At(wfs, k), args)
         THEN IF fMaxIsSet /\ counter + 1 = max_wfs_per_axes
              THEN Append(slot, k)
              ELSE by_run_slot(wfs, k + 1, Append(slot, k), counter + 1, args,
                               fMaxIsSet, max_wfs_per_axes)
         ELSE by_run_slot(wfs, k + 1, slot, counter, args, fMaxIsSet, max_wfs_per_axes)

\* The method without the test of lines 1014-1015: every slot is scanned.
get_grid_of_wf_idcs_by_run_scanning_every_slot(wfs, rs, blank_grid, filter_args, fMaxIsSet, max_wfs_per_axes) ==
    [i \in 1..Len(blank_grid) |-> [j \in 1..Len(blank_grid[i]) |->
        by_run_slot(wfs, 0, blank_grid[i][j], 0, filter_args[i][j],
                    fMaxIsSet, max_wfs_per_axes)]]

get_grid_of_wf_idcs_by_run(wfs, rs, blank_grid, filter_args, fMaxIsSet, max_wfs_per_axes) ==
    [i \in 1..Len(blank_grid) |-> [j \in 1..Len(blank_grid[i]) |->
        IF At(filter_args[i][j], 0) \notin rs
        THEN blank_grid[i][j]
        ELSE by_run_slot(wfs, 0, blank_grid[i][j], 0, filter_args[i][j],
                         fMaxIsSet, max_wfs_per_axes)]]

RECURSIVE by_endpoint_and_channel_slot(_, _, _, _, _, _, _)
by_endpoint_and_channel_slot(wfs, k, slot, counter, args, fMaxIsSet, max_wfs_per_axes) ==
    IF k >= Len(wfs) THEN slot
    ELSE IF Apply(match_endpoint_and_channel, At(wfs, k), args)
         THEN IF fMaxIsSet /\ counter + 1 = max_wfs_per_axes
              THEN Append(slot, k)
              ELSE by_endpoint_and_channel_slot(wfs, k + 1, Append(slot, k),
                                                counter + 1, args, fMaxIsSet,
                                                max_wfs_per_axes)
         ELSE by_endpoint_and_channel_slot(wfs, k + 1, slot, counter, args,
                                           fMaxIsSet, max_wfs_per_axes)

get_grid_of_wf_idcs_by_endpoint_and_channel(wfs, ac, blank_grid, filter_args, fMaxIsSet, max_wfs_per_axes) ==
    [i \in 1..Len(blank_grid) |-> [j \in 1..Len(blank_grid[i]) |->
        IF At(filter_args[i][j], 0) \notin DOMAIN ac
        THEN blank_grid[i][j]
        ELSE IF At(filter_args[i][j], 1) \notin ac[At(filter_args[i][j], 0)]
             THEN blank_grid[i][j]
        ELSE by_endpoint_and_channel_slot(wfs, 0, blank_grid[i][j], 0,
                                          filter_args[i][j], fMaxIsSet,
                                          max_wfs_per_axes)]]

\* The loop of __get_grid_of_wf_idcs_general with the counter compared
\* before it is incremented: one index too many is kept.
RECURSIVE general_slot_late_break(_, _, _, _, _, _, _, _)
general_slot_late_break(wfs, k, slot, counter, wf_filter, args, fMaxIsSet, max_wfs_per_axes) ==
    IF k >= Len(wfs) THEN slot
    ELSE IF Apply(wf_filter, At(wfs, k), args)
         THEN IF fMaxIsSet /\ counter = max_wfs_per_axes
              THEN Append(slot, k)
              ELSE general_slot_late_break(wfs, k + 1, Append(slot, k), counter + 1,
                                           wf_filter, args, fMaxIsSet, max_wfs_per_axes)
         ELSE general_slot_late_break(wfs, k + 1, slot, counter, wf_filter, args,
                                      fMaxIsSet, max_wfs_per_axes)

RECURSIVE general_slot(_, _, _, _, _, _, _, _)
general_slot(wfs, k, slot, counter, wf_filter, args, fMaxIsSet, max_wfs_per_axes) ==
    IF k >= Len(wfs) THEN slot
    ELSE IF Apply(wf_filter, At(wfs, k), args)
         THEN IF fMaxIsSet /\ counter + 1 = max_wfs_per_axes
              THEN Append(slot, k)
              ELSE general_slot(wfs, k + 1, Append(slot, k), counter + 1, wf_filter,
                                args, fMaxIsSet, max_wfs_per_axes)
         ELSE general_slot(wfs, k + 1, slot, counter, wf_filter, args, fMaxIsSet,
                           max_wfs_per_axes)

get_grid_of_wf_idcs_general(wfs, blank_grid, wf_filter, filter_args, fMaxIsSet, max_wfs_per_axes) ==
    [i \in 1..Len(blank_grid) |-> [j \in 1..Len(blank_grid[i]) |->
        general_slot(wfs, 0, blank_grid[i][j], 0, wf_filter, filter_args[i][j],
                     fMaxIsSet, max_wfs_per_axes)]]

\* Lines 846-882: the exception raised by the checks of the filtering mode,
\* or NoError.  list(signature.parameters.keys())[0] raises IndexError for
\* a callable with no parameter.
filtering_mode_error(nrows, ncols, wf_filter, filter_args, max_wfs_per_axes) ==
    IF wf_filter = None \/ ~wf_filter[1].callable
    THEN Exception("WaveformSet.get_grid_of_wf_idcs()", 3)
    ELSE LET f == wf_filter[1]
         IN  IF Len(f.parameters) = 0
             THEN IndexError("WaveformSet.get_grid_of_wf_idcs()")
             ELSE IF At(f.parameters, 0) # "waveform"
                  THEN Exception("WaveformSet.get_grid_of_wf_idcs()", 4)
             ELSE IF f.annotation # "Waveform"
                  THEN Exception("WaveformSet.get_grid_of_wf_idcs()", 5)
             ELSE IF filter_args = None
                  THEN Exception("WaveformSet.get_grid_of_wf_idcs()", 6)
             ELSE IF ~grid_of_lists_is_well_formed(filter_args[1], nrows, ncols).val
                  THEN Exception("WaveformSet.get_grid_of_wf_idcs()", 7)
             ELSE IF max_wfs_per_axes # None /\ max_wfs_per_axes[1] < 1
                  THEN Exception("WaveformSet.get_grid_of_wf_idcs()", 8)
             ELSE NoError

\* fMode: 0 and 1 for the two static methods mode_map holds, 2 otherwise.
filter_mode(f) ==
    IF f.id = match_run.id THEN 0
    ELSE IF f.id = match_endpoint_and_channel.id THEN 1
    ELSE 2

\* The method with the checks of wf_filter, filter_args and
\* max_wfs_per_axes made whether wfs_per_axes is given or not.
get_grid_of_wf_idcs_checking_filter_always(wfs, rs, ac, nrows, ncols, wfs_per_axes, wf_filter, filter_args, max_wfs_per_axes) ==
    IF nrows < 1 \/ ncols < 1
    THEN Throw(Exception("WaveformSet.get_grid_of_wf_idcs()", 1))
    ELSE IF wfs_per_axes # None /\ wfs_per_axes[1] < 1
    THEN Throw(Exception("WaveformSet.get_grid_of_wf_idcs()", 2))
    ELSE LET error == filtering_mode_error(nrows, ncols, wf_filter, filter_args,
                                           max_wfs_per_axes)
         IN  IF error # NoError THEN Throw(error)
             ELSE IF wfs_per_axes # None
             THEN get_2D_indices_nested_list(wfs_per_axes[1], nrows, ncols)
             ELSE LET fMaxIsSet == max_wfs_per_axes # None
                      max == IF fMaxIsSet THEN max_wfs_per_axes[1] ELSE 0
                      fMode == filter_mode(wf_filter[1])
                      output == get_2D_empty_nested_list(nrows, ncols)
                  IN  IF fMode = 0
                      THEN Return(get_grid_of_wf_idcs_by_run(
                                      wfs, rs, output, filter_args[1], fMaxIsSet, max))
                      ELSE IF fMode = 1
                      THEN Return(get_grid_of_wf_idcs_by_endpoint_and_channel(
                                      wfs, ac, output, filter_args[1], fMaxIsSet, max))
                      ELSE Return(get_grid_of_wf_idcs_general(
                                      wfs, output, wf_filter[1], filter_args[1],
                                      fMaxIsSet, max))

get_grid_of_wf_idcs(wfs, rs, ac, nrows, ncols, wfs_per_axes, wf_filter, filter_args, max_wfs_per_axes) ==
    IF nrows < 1 \/ ncols < 1
    THEN Throw(Exception("WaveformSet.get_grid_of_wf_idcs()", 1))
    ELSE IF wfs_per_axes # None
    THEN IF wfs_per_axes[1] < 1
         THEN Throw(Exception("WaveformSet.get_grid_of_wf_idcs()", 2))
         ELSE get_2D_indices_nested_list(wfs_per_axes[1], nrows, ncols)
    ELSE LET error == filtering_mode_error(nrows, ncols, wf_filter, filter_args,
                                           max_wfs_per_axes)
         IN  IF error # NoError THEN Throw(error)
             ELSE LET fMaxIsSet == max_wfs_per_axes # None
                      max == IF fMaxIsSet THEN max_wfs_per_axes[1] ELSE 0
                      fMode == filter_mode(wf_filter[1])
                      output == get_2D_empty_nested_list(nrows, ncols)
                  IN  IF fMode = 0
                      THEN Return(get_grid_of_wf_idcs_by_run(
                                      wfs, rs, output, filter_args[1], fMaxIsSet, max))
                      ELSE IF fMode = 1
                      THEN Return(get_grid_of_wf_idcs_by_endpoint_and_channel(
                                      wfs, ac, output, filter_args[1], fMaxIsSet, max))
                      ELSE Return(get_grid_of_wf_idcs_general(
                                      wfs, output, wf_filter[1], filter_args[1],
                                      fMaxIsSet, max))

\* The call with self.update_runs() run again before the grid is made.
GetGrid_updating_runs(nrows, ncols, wfs_per_axes, wf_filter, filter_args, max_wfs_per_axes) ==
    /\ phase = "ready"
    /\ call' = [op |-> "get_grid_of_wf_idcs",
                args |-> [nrows |-> nrows, ncols |-> ncols,
                          wfs_per_axes |-> wfs_per_axes, wf_filter |-> wf_filter,
                          filter_args |-> filter_args,
                          max_wfs_per_axes |-> max_wfs_per_axes]]
    /\ runs' = update_runs(waveforms, runs)
    /\ LET r == get_grid_of_wf_idcs(waveforms, runs', available_channels, nrows,
                                    ncols, wfs_per_axes, wf_filter, filter_args,
                                    max_wfs_per_axes)
       IN  /\ raised' = r.exc
           /\ ret' = IF r.exc = NoError THEN [NoReturn EXCEPT !.grid = r.val]
                     ELSE NoReturn
    /\ invoked' = <<>>
    /\ UNCHANGED <<phase, waveforms, points_per_wf, available_channels,
                   mean_adcs, mean_adcs_idcs>>

\* self.get_grid_of_wf_idcs(nrows, ncols, wfs_per_axes = ..., wf_filter = ...,
\*                          filter_args = ..., max_wfs_per_axes = ...)
GetGrid(nrows, ncols, wfs_per_axes, wf_filter, filter_args, max_wfs_per_axes) ==
    /\ phase = "ready"
    /\ call' = [op |-> "get_grid_of_wf_idcs",
                args |-> [nrows |-> nrows, ncols |-> ncols,
                          wfs_per_axes |-> wfs_per_axes, wf_filter |-> wf_filter,
                          filter_args |-> filter_args,
                          max_wfs_per_axes |-> max_wfs_per_axes]]
    /\ LET r == get_grid_of_wf_idcs(waveforms, runs, available_channels, nrows,
                                    ncols, wfs_per_axes, wf_filter, filter_args,
                                    max_wfs_per_axes)
       IN  /\ raised' = r.exc
           /\ ret' = IF r.exc = NoError THEN [NoReturn EXCEPT !.grid = r.val]
                     ELSE NoReturn
    /\ invoked' = <<>>
    /\ UNCHANGED <<phase, collection>>

---------------------------------------------------------------------------
(* WaveformSet.compute_mean_waveform and the methods it calls.  An Adcs    *)
(* array is a sequence of integers; the quotient aux/len(...) is a         *)
(* sequence of fractions <<numerator, denominator>> in lowest terms.       *)

RECURSIVE GCD(_, _)
GCD(a, b) == IF b = 0 THEN a ELSE GCD(b, a % b)

Fraction(a, n) == LET g == GCD(a, n) IN <<a \div g, n \div g>>

\* aux/n, element by element.
Divided(aux, n) == [s \in 1..Len(aux) |-> Fraction(aux[s], n)]

\* aux += adcs, element by element.
Added(aux, adcs) == [s \in 1..Len(aux) |-> aux[s] + adcs[s]]

\* np.zeros((n,))
Zeros(n) == [s \in 1..n |-> 0]

WaveformAdcs(timestep, adcs) == [TimeStep_ns |-> timestep, Adcs |-> adcs]

\* The check with the lower bound a list subscript has.
is_valid_iterator_value_as_subscript(wfs, iterator_value) ==
    IF iterator_value < 0 - Len(wfs) THEN FALSE
    ELSE IF iterator_value <= Len(wfs) - 1 THEN TRUE
    ELSE FALSE

is_valid_iterator_value(wfs, iterator_value) ==
    IF iterator_value < 0 THEN FALSE
    ELSE IF iterator_value <= Len(wfs) - 1 THEN TRUE
    ELSE FALSE

\* self.__waveforms[idx]: a list subscript counts a negative idx from the
\* end and raises IndexError outside [-len, len - 1].
SubscriptRaises(wfs, idx) == idx < 0 - Len(wfs) \/ idx > Len(wfs) - 1
Subscript(wfs, idx) == IF idx < 0 THEN wfs[Len(wfs) + idx + 1] ELSE wfs[idx + 1]

\* The loop of __compute_mean_waveform_of_every_waveform, from waveform i on.
\* aux is the Adcs array of waveform 0 itself (line 1506 copies nothing), so
\* aux += ... writes into that waveform.
RECURSIVE sum_into_first(_, _)
sum_into_first(wfs, i) ==
    IF i >= Len(wfs) THEN wfs
    ELSE sum_into_first([wfs EXCEPT ![1].Adcs = Added(@, At(wfs, i).Adcs)], i + 1)

\* The loop started at waveform 0, which is then added to itself.
compute_mean_waveform_of_every_waveform_from_0(wfs) ==
    LET summed == sum_into_first(wfs, 0)
        aux == At(summed, 0).Adcs
    IN  [exc |-> NoError,
         wfs |-> summed,
         output |-> WaveformAdcs(At(summed, 0).TimeStep_ns, Divided(aux, Len(wfs))),
         idcs |-> [k \in 1..Len(wfs) |-> k - 1]]

\* [wfs: the waveforms after the call, output, idcs]
compute_mean_waveform_of_every_waveform(wfs) ==
    LET summed == sum_into_first(wfs, 1)
        aux == At(summed, 0).Adcs
    IN  [exc |-> NoError,
         wfs |-> summed,
         output |-> WaveformAdcs(At(summed, 0).TimeStep_ns, Divided(aux, Len(wfs))),
         idcs |-> [k \in 1..Len(wfs) |-> k - 1]]

\* The loop of __compute_mean_waveform_with_selector, from waveform i on.
RECURSIVE selected(_, _, _, _, _, _)
selected(wfs, i, aux, added_wvfs, wf_selector, args) ==
    IF i >= Len(wfs) THEN [aux |-> aux, added_wvfs |-> added_wvfs]
    ELSE IF Apply(wf_selector, At(wfs, i), args)
         THEN selected(wfs, i + 1, Added(aux, At(wfs, i).Adcs),
                       Append(added_wvfs, i), wf_selector, args)
         ELSE selected(wfs, i + 1, aux, added_wvfs, wf_selector, args)

compute_mean_waveform_with_selector(wfs, PointsPerWf, wf_selector, args) ==
    LET r == selected(wfs, 0, Zeros(PointsPerWf), <<>>, wf_selector, args)
    IN  IF Len(r.added_wvfs) = 0
        THEN [exc |-> Exception("WaveformSet.__compute_mean_waveform_with_selector()", 1),
              wfs |-> wfs, output |-> <<>>, idcs |-> <<>>]
        ELSE [exc |-> NoError,
              wfs |-> wfs,
              output |-> WaveformAdcs(At(wfs, At(r.added_wvfs, 0)).TimeStep_ns,
                                      Divided(r.aux, Len(r.added_wvfs))),
              idcs |-> r.added_wvfs]

\* The loop of __compute_mean_waveform_of_given_waveforms, from the p-th
\* entry of wf_idcs on.
RECURSIVE given(_, _, _, _, _)
given(wfs, wf_idcs, p, aux, added_wvfs) ==
    IF p >= Len(wf_idcs) THEN [aux |-> aux, added_wvfs |-> added_wvfs]
    ELSE LET idx == At(wf_idcs, p)
         IN  IF SubscriptRaises(wfs, idx)
             THEN given(wfs, wf_idcs, p + 1, aux, added_wvfs)
             ELSE given(wfs, wf_idcs, p + 1, Added(aux, Subscript(wfs, idx).Adcs),
                        Append(added_wvfs, idx))

\* The time step taken from waveform 0, as in the mean of every waveform.
compute_mean_waveform_of_given_waveforms_step_of_0(wfs, PointsPerWf, wf_idcs) ==
    LET r == given(wfs, wf_idcs, 0, Zeros(PointsPerWf), <<>>)
    IN  [exc |-> NoError,
         wfs |-> wfs,
         output |-> WaveformAdcs(At(wfs, 0).TimeStep_ns,
                                 Divided(r.aux, Len(r.added_wvfs))),
         idcs |-> r.added_wvfs]

compute_mean_waveform_of_given_waveforms(wfs, PointsPerWf, wf_idcs) ==
    LET r == given(wfs, wf_idcs, 0, Zeros(PointsPerWf), <<>>)
    IN  [exc |-> NoError,
         wfs |-> wfs,
         output |-> WaveformAdcs(Subscript(wfs, At(r.added_wvfs, 0)).TimeStep_ns,
                                 Divided(r.aux, Len(r.added_wvfs))),
         idcs |-> r.added_wvfs]

\* Lines 1442-1456: the exception raised by the checks of wf_selector, or
\* NoError.  inspect.signature is not guarded here: it raises TypeError for
\* an object that is not callable, and the subscript [0] raises IndexError
\* for a callable with no parameter.
selector_error_without_return_check(wf_selector) ==
    IF ~wf_selector.callable
    THEN [type |-> "TypeError", where |-> "WaveformSet.compute_mean_waveform()", code |-> 0]
    ELSE IF Len(wf_selector.parameters) = 0
         THEN IndexError("WaveformSet.compute_mean_waveform()")
    ELSE IF At(wf_selector.parameters, 0) # "waveform"
         THEN Exception("WaveformSet.compute_mean_waveform()", 2)
    ELSE IF wf_selector.annotation # "Waveform"
         THEN Exception("WaveformSet.compute_mean_waveform()", 3)
    ELSE NoError

selector_error(wf_selector) ==
    IF ~wf_selector.callable
    THEN [type |-> "TypeError", where |-> "WaveformSet.compute_mean_waveform()", code |-> 0]
    ELSE IF Len(wf_selector.parameters) = 0
         THEN IndexError("WaveformSet.compute_mean_waveform()")
    ELSE IF At(wf_selector.parameters, 0) # "waveform"
         THEN Exception("WaveformSet.compute_mean_waveform()", 2)
    ELSE IF wf_selector.annotation # "Waveform"
         THEN Exception("WaveformSet.compute_mean_waveform()", 3)
    ELSE IF wf_selector.return_annotation # "bool"
         THEN Exception("WaveformSet.compute_mean_waveform()", 4)
    ELSE NoError

Failed(wfs, e) == [exc |-> e, wfs |-> wfs, output |-> <<>>, idcs |-> <<>>]

\* The dispatch with wf_selector looked at before wf_idcs.
compute_mean_waveform_selector_first(wfs, PointsPerWf, args, wf_idcs, wf_selector) ==
    IF Len(wfs) = 0
    THEN Failed(wfs, Exception("WaveformSet.compute_mean_waveform()", 1))
    ELSE IF wf_idcs = None /\ wf_selector = None
    THEN compute_mean_waveform_of_every_waveform(wfs)
    ELSE IF wf_selector # None
    THEN LET error == selector_error(wf_selector[1])
         IN  IF error # NoError THEN Failed(wfs, error)
             ELSE compute_mean_waveform_with_selector(wfs, PointsPerWf,
                                                      wf_selector[1], args)
    ELSE LET fWfIdcsIsWellFormed ==
                 \E p \in 1..Len(wf_idcs[1]) : is_valid_iterator_value(wfs, wf_idcs[1][p])
         IN  IF ~fWfIdcsIsWellFormed
             THEN Failed(wfs, Exception("WaveformSet.compute_mean_waveform()", 5))
             ELSE compute_mean_waveform_of_given_waveforms(wfs, PointsPerWf, wf_idcs[1])

compute_mean_waveform(wfs, PointsPerWf, args, wf_idcs, wf_selector) ==
    IF Len(wfs) = 0
    THEN Failed(wfs, Exception("WaveformSet.compute_mean_waveform()", 1))
    ELSE IF wf_idcs = None /\ wf_selector = None
    THEN compute_mean_waveform_of_every_waveform(wfs)
    ELSE IF wf_idcs = None /\ wf_selector # None
    THEN LET error == selector_error(wf_selector[1])
         IN  IF error # NoError THEN Failed(wfs, error)
             ELSE compute_mean_waveform_with_selector(wfs, PointsPerWf,
                                                      wf_selector[1], args)
    ELSE LET fWfIdcsIsWellFormed ==
                 \E p \in 1..Len(wf_idcs[1]) : is_valid_iterator_value(wfs, wf_idcs[1][p])
         IN  IF ~fWfIdcsIsWellFormed
             THEN Failed(wfs, Exception("WaveformSet.compute_mean_waveform()", 5))
             ELSE compute_mean_waveform_of_given_waveforms(wfs, PointsPerWf, wf_idcs[1])

\* The call with __mean_adcs assigned and __mean_adcs_idcs left as it was.
ComputeMean_caching_the_trace_only(args, wf_idcs, wf_selector) ==
    /\ phase = "ready"
    /\ call' = [op |-> "compute_mean_waveform",
                args |-> [args |-> args, wf_idcs |-> wf_idcs,
                          wf_selector |-> wf_selector]]
    /\ LET r == compute_mean_waveform(waveforms, points_per_wf, args, wf_idcs,
                                      wf_selector)
       IN  /\ raised' = r.exc
           /\ waveforms' = r.wfs
           /\ IF r.exc = NoError
              THEN /\ ret' = [NoReturn EXCEPT !.mean = Some(r.output)]
                   /\ mean_adcs' = Some(r.output)
              ELSE /\ ret' = NoReturn
                   /\ UNCHANGED mean_adcs
    /\ invoked' = <<>>
    /\ UNCHANGED <<phase, points_per_wf, runs, available_channels, mean_adcs_idcs>>

\* The call with __mean_adcs and __mean_adcs_idcs set back to None when it
\* raises.
ComputeMean_clearing_on_failure(args, wf_idcs, wf_selector) ==
    /\ phase = "ready"
    /\ call' = [op |-> "compute_mean_waveform",
                args |-> [args |-> args, wf_idcs |-> wf_idcs,
                          wf_selector |-> wf_selector]]
    /\ LET r == compute_mean_waveform(waveforms, points_per_wf, args, wf_idcs,
                                      wf_selector)
       IN  /\ raised' = r.exc
           /\ waveforms' = r.wfs
           /\ IF r.exc = NoError
              THEN /\ ret' = [NoReturn EXCEPT !.mean = Some(r.output)]
                   /\ mean_adcs' = Some(r.output)
                   /\ mean_adcs_idcs' = Some(r.idcs)
              ELSE /\ ret' = NoReturn
                   /\ mean_adcs' = None
                   /\ mean_adcs_idcs' = None
    /\ invoked' = <<>>
    /\ UNCHANGED <<phase, points_per_wf, runs, available_channels>>

\* The call with __mean_adcs and __mean_adcs_idcs assigned only while they
\* are None.
ComputeMean_keeping_first(args, wf_idcs, wf_selector) ==
    /\ phase = "ready"
    /\ call' = [op |-> "compute_mean_waveform",
                args |-> [args |-> args, wf_idcs |-> wf_idcs,
                          wf_selector |-> wf_selector]]
    /\ LET r == compute_mean_waveform(waveforms, points_per_wf, args, wf_idcs,
                                      wf_selector)
       IN  /\ raised' = r.exc
           /\ waveforms' = r.wfs
           /\ IF r.exc = NoError
              THEN /\ ret' = [NoReturn EXCEPT !.mean = Some(r.output)]
                   /\ IF mean_adcs = None
                      THEN /\ mean_adcs' = Some(r.output)
                           /\ mean_adcs_idcs' = Some(r.idcs)
                      ELSE UNCHANGED <<mean_adcs, mean_adcs_idcs>>
              ELSE /\ ret' = NoReturn
                   /\ UNCHANGED <<mean_adcs, mean_adcs_idcs>>
    /\ invoked' = <<>>
    /\ UNCHANGED <<phase, points_per_wf, runs, available_channels>>

\* self.compute_mean_waveform(*args, wf_idcs = ..., wf_selector = ...)
ComputeMean(args, wf_idcs, wf_selector) ==
    /\ phase = "ready"
    /\ call' = [op |-> "compute_mean_waveform",
                args |-> [args |-> args, wf_idcs |-> wf_idcs,
                          wf_selector |-> wf_selector]]
    /\ LET r == compute_mean_waveform(waveforms, points_per_wf, args, wf_idcs,
                                      wf_selector)
       IN  /\ raised' = r.exc
           /\ waveforms' = r.wfs
           /\ IF r.exc = NoError
              THEN /\ ret' = [NoReturn EXCEPT !.mean = Some(r.output)]
                   /\ mean_adcs' = Some(r.output)
                   /\ mean_adcs_idcs' = Some(r.idcs)
              ELSE /\ ret' = NoReturn
                   /\ UNCHANGED <<mean_adcs, mean_adcs_idcs>>
    /\ invoked' = <<>>
    /\ UNCHANGED <<phase, points_per_wf, runs, available_channels>>

\* self.is_valid_iterator_value(iterator_value); ret.output holds the
\* boolean returned.
IsValidIteratorValue(iterator_value) ==
    /\ phase = "ready"
    /\ call' = [op |-> "is_valid_iterator_value",
                args |-> [iterator_value |-> iterator_value]]
    /\ ret' = [NoReturn EXCEPT
                 !.output = <<is_valid_iterator_value(waveforms, iterator_value)>>]
    /\ raised' = NoError
    /\ invoked' = <<>>
    /\ UNCHANGED <<phase, collection>>

\* The caller assigns `value` to the run number, the endpoint or the channel
\* of the Waveform object self.__waveforms[idx], which the caller gave to
\* the constructor and still holds.  Nothing of the WaveformSet runs.
ExternalChange(idx, attribute, value) ==
    /\ phase = "ready"
    /\ idx \in 0..(Len(waveforms) - 1)
    /\ attribute \in {"RunNumber", "Endpoint", "Channel"}
    /\ call' = [op |-> "external", args |-> <<>>]
    /\ ret' = NoReturn
    /\ raised' = NoError
    /\ invoked' = <<>>
    /\ waveforms' = [waveforms EXCEPT ![idx + 1][attribute] = value]
    /\ UNCHANGED <<phase, points_per_wf, runs, available_channels,
                   mean_adcs, mean_adcs_idcs>>

\* str(input) of an int that is not negative: its decimal digits, the most
\* significant first, without leading zeros.
RECURSIVE str(_)
str(input) == IF input < 10 THEN <<input>> ELSE Append(str(input \div 10), input % 10)

\* s[start:stop] of a string s, for 0 <= start <= stop.
Slice(s, start, stop) ==
    SubSeq(s, start + 1, IF stop < Len(s) THEN stop ELSE Len(s))

\* int(s) of a string of decimal digits; int('') raises ValueError.
RECURSIVE int_of_digits(_)
int_of_digits(s) ==
    IF Len(s) = 1 THEN s[1]
    ELSE 10 * int_of_digits(SubSeq(s, 1, Len(s) - 1)) + s[Len(s)]

int(s) ==
    IF s = <<>> THEN Throw([type |-> "ValueError", where |-> "int()", code |-> 0])
    ELSE Return(int_of_digits(s))

\* The channel read from the one digit str(input)[3:4].
get_endpoint_and_channel_one_digit_channel(input) ==
    LET endpoint == int(Slice(str(input), 0, 3))
        channel == int(Slice(str(input), 3, 4))
    IN  IF endpoint.exc # NoError THEN Throw(endpoint.exc)
        ELSE IF channel.exc # NoError THEN Throw(channel.exc)
        ELSE Return(<<endpoint.val, channel.val>>)

get_endpoint_and_channel(input) ==
    LET endpoint == int(Slice(str(input), 0, 3))
        channel == int(Slice(str(input), 3, 5))
    IN  IF endpoint.exc # NoError THEN Throw(endpoint.exc)
        ELSE IF channel.exc # NoError THEN Throw(channel.exc)
        ELSE Return(<<endpoint.val, channel.val>>)

\* WaveformSet.get_endpoint_and_channel(input), a static method: no
\* collection is needed and none is touched.
GetEndpointAndChannel(input) ==
    /\ call' = [op |-> "get_endpoint_and_channel", args |-> [input |-> input]]
    /\ LET r == get_endpoint_and_channel(input)
       IN  /\ raised' = r.exc
           /\ ret' = IF r.exc = NoError THEN [NoReturn EXCEPT !.output = r.val]
                     ELSE NoReturn
    /\ invoked' = <<>>
    /\ UNCHANGED <<phase, collection>>

\* The last call was the constructor's: the collection is as constructed.
JustConstructed == call.op = "__init__"

---------------------------------------------------------------------------
(* Construction alone, over waveforms that differ in the length of their   *)
(* Adcs, their run, their endpoint and their channel.                      *)

ZeroAdcs(n) == [s \in 1..n |-> 0]

ConstructPool ==
    {Waveform(16, ZeroAdcs(n), r, e, c) :
        n \in 1..MaxPoints, r \in RunNumbers, e \in Endpoints, c \in Channels}

ConstructAny == \E wfs \in SeqsUpTo(ConstructPool, MaxWfs) : Construct(wfs)

SpecConstruct == Init /\ [][ConstructAny]_vars

---------------------------------------------------------------------------
(* Construction: the claims.                                               *)

\* The error __init__ raises for waveforms of different lengths.
ShapeError == Exception("WaveformSet.__init__()", 1)

ConstructedFrom(wfs) == call.op = "__init__" /\ call.args.waveforms = wfs

\* C6: constructing a collection from an empty sequence of records fails
\* with ShapeError, the error construction raises for non-uniform trace
\* lengths, and no collection is produced.
C6_EmptyConstructionRaisesShapeError ==
    ConstructedFrom(<<>>) => (phase = "failed" /\ raised = ShapeError)

\* C7: construction from a non-empty sequence of records fails with
\* ShapeError exactly when two records have different trace lengths, and
\* fails in no other way; in a constructed collection every record's trace
\* length is points_per_wf, the length of record 0's trace.
C7_ShapeErrorIffLengthsDiffer ==
    /\ (call.op = "__init__" /\ Len(call.args.waveforms) > 0) =>
          LET wfs == call.args.waveforms
              differ == \E i, j \in 1..Len(wfs) : Len(wfs[i].Adcs) # Len(wfs[j].Adcs)
          IN  /\ (raised = ShapeError) <=> differ
              /\ (phase = "failed") <=> differ
              /\ (phase = "ready") <=> ~differ
    /\ (phase = "ready") =>
          /\ points_per_wf = Len(At(waveforms, 0).Adcs)
          /\ \A i \in 1..Len(waveforms) : Len(waveforms[i].Adcs) = points_per_wf

C7_Witness ==
    /\ call.op = "__init__"
    /\ Len(call.args.waveforms) = 2
    /\ Len(call.args.waveforms[1].Adcs) # Len(call.args.waveforms[2].Adcs)
    /\ raised = ShapeError

\* C8: immediately after a successful construction runs is the set of the
\* records' run numbers, the keys of available_channels are the records'
\* endpoints, and available_channels[e] is the set of the channels of the
\* records of endpoint e (never empty).
C8_DerivedAttributesAfterConstruction ==
    (call.op = "__init__" /\ phase = "ready") =>
        LET idx == 1..Len(waveforms)
        IN  /\ runs = {waveforms[i].RunNumber : i \in idx}
            /\ DOMAIN available_channels = {waveforms[i].Endpoint : i \in idx}
            /\ \A e \in DOMAIN available_channels :
                  /\ available_channels[e] =
                        {waveforms[i].Channel : i \in {k \in idx : waveforms[k].Endpoint = e}}
                  /\ available_channels[e] # {}

C8_Witness ==
    /\ call.op = "__init__"
    /\ phase = "ready"
    /\ \E e \in DOMAIN available_channels : Cardinality(available_channels[e]) = 2

---------------------------------------------------------------------------
(* analyse on a collection just constructed, over every baseline_limits    *)
(* list and integration window within the bounds, and over every analyser  *)
(* name.                                                                   *)

AnalyseInputs ==
    {[i \in 1..k |-> Waveform(16, ZeroAdcs(p), 10, 104, 1)] :
        k \in 1..MaxWfs, p \in 1..MaxPoints}

ConstructForAnalyse == \E wfs \in AnalyseInputs : Construct(wfs)

Samples == (0 - 1)..MaxPoints

AnalyseLimitsAndWindow ==
    /\ JustConstructed
    /\ \E baseline_limits \in SeqsUpTo(Samples, MaxLimits),
          int_ll \in Samples,
          int_ul \in {None} \cup {Some(u) : u \in Samples} :
            Analyse("a", "standard_analyser", baseline_limits, int_ll, int_ul,
                    FALSE, "raise")

AnalyseByName ==
    /\ JustConstructed
    /\ \E analyser_name \in AnalyserNames :
            Analyse("a", analyser_name, <<0, 1>>, 0, None, FALSE, "raise")

SpecAnalyse ==
    Init /\ [][ConstructForAnalyse \/ AnalyseLimitsAndWindow \/ AnalyseByName]_vars

---------------------------------------------------------------------------
(* analyse: the claims.                                                    *)

MalformedLimitsError == Exception("WaveformSet.analyse()", 1)
MalformedWindowError == Exception("WaveformSet.analyse()", 2)

\* Even length, strictly increasing, every value in [0, PointsPerWf - 1].
LimitsAreValid(baseline_limits, PointsPerWf) ==
    /\ Len(baseline_limits) % 2 = 0
    /\ \A i \in 1..(Len(baseline_limits) - 1) : baseline_limits[i] < baseline_limits[i + 1]
    /\ \A i \in 1..Len(baseline_limits) :
          0 <= baseline_limits[i] /\ baseline_limits[i] <= PointsPerWf - 1

WindowIsValid(int_ll, int_ul, PointsPerWf) ==
    0 <= int_ll /\ int_ll < int_ul /\ int_ul <= PointsPerWf - 1

\* The call ended inside the baseline-limits check.
EndedInLimitsCheck(e) ==
    \/ e = MalformedLimitsError
    \/ e = IndexError("WaveformSet.baseline_limits_are_well_formed()")

\* C9: for every baseline_limits list, analyse passes the baseline-limits
\* check and goes on to the next one when the list has even length, is
\* strictly increasing and has every value in [0, points_per_wf - 1];
\* otherwise it raises MalformedLimitsError and leaves every waveform as
\* it was.
C9_BaselineLimitsCheckedAsSpecified ==
    [][call'.op = "analyse" =>
         IF LimitsAreValid(call'.args.baseline_limits, points_per_wf)
         THEN ~EndedInLimitsCheck(raised')
         ELSE raised' = MalformedLimitsError /\ waveforms' = waveforms]_vars

\* C10: with int_ul resolved to points_per_wf - 1 when it is None, analyse
\* raises MalformedWindowError, leaving every waveform as it was, exactly
\* when the baseline limits are well formed and the window does not satisfy
\* 0 <= int_ll < int_ul <= points_per_wf - 1.
C10_WindowErrorIffLimitsValidAndWindowInvalid ==
    [][call'.op = "analyse" =>
         LET a == call'.args
         IN  /\ (raised' = MalformedWindowError) <=>
                   /\ LimitsAreValid(a.baseline_limits, points_per_wf)
                   /\ ~WindowIsValid(a.int_ll,
                                     resolved_int_ul(a.int_ul, points_per_wf),
                                     points_per_wf)
             /\ (raised' = MalformedWindowError) => waveforms' = waveforms]_vars

\* The same with the empty list, on which the baseline-limits check raises
\* IndexError, set aside.
WindowCheckOnNonEmptyLimits ==
    [][(call'.op = "analyse" /\ call'.args.baseline_limits # <<>>) =>
         LET a == call'.args
         IN  /\ (raised' = MalformedWindowError) <=>
                   /\ LimitsAreValid(a.baseline_limits, points_per_wf)
                   /\ ~WindowIsValid(a.int_ll,
                                     resolved_int_ul(a.int_ul, points_per_wf),
                                     points_per_wf)
             /\ (raised' = MalformedWindowError) => waveforms' = waveforms]_vars

\* Every list but the empty one is checked as C9 says.
LimitsCheckOnNonEmptyLimits ==
    [][(call'.op = "analyse" /\ call'.args.baseline_limits # <<>>) =>
         IF LimitsAreValid(call'.args.baseline_limits, points_per_wf)
         THEN ~EndedInLimitsCheck(raised')
         ELSE raised' = MalformedLimitsError /\ waveforms' = waveforms]_vars

\* The clause of the analyser contract that analyser_name fails first, or
\* "none": the member exists, is callable, has a first parameter, named
\* 'waveform', hinted as the trace type, and returns the 3-tuple.
FailingClause(analyser_name) ==
    IF analyser_name \notin DOMAIN WfAna THEN "not found"
    ELSE IF ~WfAna[analyser_name].callable THEN "not callable"
    ELSE IF WfAna[analyser_name].parameters = <<>> THEN "missing first parameter"
    ELSE IF Head(WfAna[analyser_name].parameters) # "waveform" THEN "wrong first parameter"
    ELSE IF WfAna[analyser_name].annotation \notin {"WaveformAdcs", "<class WaveformAdcs>"}
         THEN "wrong parameter type"
    ELSE IF WfAna[analyser_name].return_annotation # "Tuple[WfAnaResult, bool, dict]"
         THEN "wrong return shape"
    ELSE "none"

\* The exception of analyse that names each clause.
AnalyserContractError ==
    [c \in {"not found", "not callable", "wrong first parameter",
            "wrong parameter type", "wrong return shape", "missing first parameter"} |->
        Exception("WaveformSet.analyse()",
                  CASE c = "not found" -> 3
                    [] c = "not callable" -> 4
                    [] c = "wrong first parameter" -> 5
                    [] c = "wrong parameter type" -> 6
                    [] c = "wrong return shape" -> 7
                    [] c = "missing first parameter" -> 8)]

\* The call went past the checks of the baseline limits and of the window.
ReachedAnalyserCheck(a) ==
    /\ baseline_limits_are_well_formed(a.baseline_limits, points_per_wf) = Return(TRUE)
    /\ subinterval_is_well_formed(a.int_ll, resolved_int_ul(a.int_ul, points_per_wf),
                                  points_per_wf)

\* C11: in a call of analyse whose baseline limits and window are accepted,
\* a waveform is analysed only if analyser_name names a member of WfAna
\* that is callable, whose first parameter is named 'waveform' and hinted
\* as the trace type, and whose return annotation is the 3-tuple; when a
\* clause fails the call raises the exception of analyse that names that
\* clause, whatever the number of waveforms, and every waveform is as it was.
C11_AnalyserContractCheckedBeforeAnyRecord ==
    [][(call'.op = "analyse" /\ ReachedAnalyserCheck(call'.args)) =>
         LET clause == FailingClause(call'.args.analyser_name)
         IN  /\ clause # "none" =>
                   /\ raised' = AnalyserContractError[clause]
                   /\ waveforms' = waveforms
             /\ clause = "none" => raised' \notin {AnalyserContractError[c] :
                                                      c \in DOMAIN AnalyserContractError}
             /\ waveforms' # waveforms => clause = "none"]_vars

\* A collection of several waveforms on which analyse was asked for an
\* analyser that returns a dictionary, and raised for it.
C11_Witness ==
    /\ call.op = "analyse"
    /\ Len(waveforms) > 1
    /\ call.args.analyser_name = "dict_analyser"
    /\ raised = AnalyserContractError["wrong return shape"]
    /\ \A i \in 1..Len(waveforms) : DOMAIN waveforms[i].Analyses = {}

---------------------------------------------------------------------------
(* The loop of analyse, over waveforms of which some were analysed before  *)
(* they were given to the constructor.                                     *)

\* A WfAna object a waveform holds from an earlier analysis of its own.
EarlierWfAna ==
    [analyser_name |-> "standard_analyser", baseline_limits |-> <<0, 1>>,
     int_ll |-> 0, int_ul |-> 1]

Analysed(wf, label) == [wf EXCEPT !.Analyses = [l \in {label} |-> EarlierWfAna]]

DispatchPool ==
    LET fresh == {Waveform(16, <<1, 2, 3>>, 10, 104, 1),
                  Waveform(16, <<3, 0, 1>>, 10, 104, 1)}
    IN  fresh \cup {Analysed(wf, "a") : wf \in fresh}

ConstructForDispatch ==
    \E wfs \in SeqsUpTo(DispatchPool, MaxWfs) : Len(wfs) > 0 /\ Construct(wfs)

Dispatch ==
    /\ JustConstructed
    /\ \E label \in {"a", "b"}, overwrite \in BOOLEAN, on_taken \in {"raise", "skip"},
          analyser_name \in {"standard_analyser", "class_hinted_analyser"},
          baseline_limits \in {<<0, 1>>, <<0, 1, 2, 3>>},
          int_ll \in 0..1, int_ul \in {None, Some(1), Some(2)} :
            Analyse(label, analyser_name, baseline_limits, int_ll, int_ul,
                    overwrite, on_taken)

SpecDispatch == Init /\ [][ConstructForDispatch \/ Dispatch]_vars

\* The upper limit of the window a call asks for.
AskedUpperLimit(a) == IF a.int_ul = None THEN points_per_wf - 1 ELSE a.int_ul[1]

\* The limits, the window and the analyser of the call are all accepted.
PreconditionsHold(a) ==
    /\ a.baseline_limits # <<>>
    /\ LimitsAreValid(a.baseline_limits, points_per_wf)
    /\ WindowIsValid(a.int_ll, AskedUpperLimit(a), points_per_wf)
    /\ FailingClause(a.analyser_name) = "none"

\* The call of Waveform.analyse on waveform i (counted from 1) raises: the
\* label is taken, overwrite is False and the waveform's policy is to raise.
RecordCallFails(a, i) ==
    /\ a.label \in DOMAIN waveforms[i].Analyses
    /\ ~a.overwrite
    /\ a.on_taken = "raise"

\* C12: when the preconditions hold and no call of Waveform.analyse raises,
\* analyse on n waveforms calls Waveform.analyse once per waveform, in the
\* order 0..n-1, each time with the label, analyser name, baseline limits,
\* int_ll and overwrite it was given and int_ul resolved (points_per_wf - 1
\* when omitted), and returns a dictionary with the keys 0..n-1 whose value
\* under i is what the call on waveform i returned.
C12_EveryRecordAnalysedOnceInOrder ==
    [][(/\ call'.op = "analyse"
        /\ PreconditionsHold(call'.args)
        /\ \A i \in 1..Len(waveforms) : ~RecordCallFails(call'.args, i)) =>
         LET a == call'.args
             n == Len(waveforms)
         IN  /\ raised' = NoError
             /\ Len(invoked') = n
             /\ \A i \in 1..n :
                   /\ invoked'[i].index = i - 1
                   /\ invoked'[i].label = a.label
                   /\ invoked'[i].analyser_name = a.analyser_name
                   /\ invoked'[i].baseline_limits = a.baseline_limits
                   /\ invoked'[i].int_ll = a.int_ll
                   /\ invoked'[i].int_ul = AskedUpperLimit(a)
                   /\ invoked'[i].overwrite = a.overwrite
                   /\ invoked'[i].returned # None
             /\ DOMAIN ret'.output = 1..n
             /\ \A i \in 1..n : ret'.output[i] = invoked'[i].returned[1]]_vars

\* analyse returned on several waveforms, with int_ul omitted.
C12_Witness ==
    /\ call.op = "analyse"
    /\ raised = NoError
    /\ call.args.int_ul = None
    /\ Len(waveforms) > 1
    /\ Len(invoked) = Len(waveforms)
    /\ ret.output[1] # ret.output[2]

\* C13: when the call of Waveform.analyse on waveform k raises, analyse
\* raises the same exception, the waveforms 0..k-1 keep the WfAna object
\* this call added under the label, and the waveforms k..n-1 are as they
\* were, those after k not having been called.
C13_FailureKeepsEarlierRecordsAnalysed ==
    [][(call'.op = "analyse" /\ PreconditionsHold(call'.args)) =>
         \A k \in 1..Len(waveforms) :
            (/\ RecordCallFails(call'.args, k)
             /\ \A i \in 1..(k - 1) : ~RecordCallFails(call'.args, i)) =>
                /\ raised' = Exception("WaveformAdcs.analyse()", 1)
                /\ ret' = NoReturn
                /\ Len(waveforms') = Len(waveforms)
                /\ \A i \in 1..(k - 1) :
                      /\ call'.args.label \in DOMAIN waveforms'[i].Analyses
                      /\ waveforms'[i].Analyses[call'.args.label] =
                            [analyser_name |-> call'.args.analyser_name,
                             baseline_limits |-> call'.args.baseline_limits,
                             int_ll |-> call'.args.int_ll,
                             int_ul |-> AskedUpperLimit(call'.args)]
                /\ \A i \in k..Len(waveforms) : waveforms'[i] = waveforms[i]
                /\ Len(invoked') = k
                /\ invoked'[k].returned = None]_vars

\* analyse raised on its second waveform, having analysed the first.
C13_Witness ==
    /\ call.op = "analyse"
    /\ raised = Exception("WaveformAdcs.analyse()", 1)
    /\ Len(invoked) = 2
    /\ call.args.label \in DOMAIN waveforms[1].Analyses
    /\ waveforms[1].Analyses[call.args.label].analyser_name = "class_hinted_analyser"
    /\ waveforms[2].Analyses[call.args.label] = EarlierWfAna

---------------------------------------------------------------------------
(* get_grid_of_wf_idcs on collections whose waveforms differ in run,       *)
(* endpoint and channel.                                                   *)

GridPool ==
    {Waveform(16, <<0>>, 10, 104, 1), Waveform(16, <<0>>, 10, 104, 2),
     Waveform(16, <<0>>, 11, 104, 1), Waveform(16, <<0>>, 11, 105, 1)}

ConstructForGrid ==
    \E wfs \in SeqsUpTo(GridPool, MaxWfs) : Len(wfs) > 0 /\ Construct(wfs)

\* Callables a caller may define: two that compute what the static methods
\* compute, and callables that break one clause of the documented contract.
my_match_run ==
    Callable("my_match_run", <<"waveform", "run">>, "Waveform", "bool",
             "RunNumber == run")
my_match_endpoint_and_channel ==
    Callable("my_match_endpoint_and_channel", <<"waveform", "endpoint", "channel">>,
             "Waveform", "bool", "Endpoint == endpoint and Channel == channel")
wf_first_filter ==
    Callable("wf_first_filter", <<"wf", "run">>, "Waveform", "bool", "RunNumber == run")
unhinted_filter ==
    Callable("unhinted_filter", <<"waveform", "run">>, "", "bool", "RunNumber == run")
int_filter ==
    Callable("int_filter", <<"waveform", "run">>, "Waveform", "int", "RunNumber == run")
unannotated_return_filter ==
    Callable("unannotated_return_filter", <<"waveform", "run">>, "Waveform", "",
             "RunNumber == run")
no_parameter_filter ==
    Callable("no_parameter_filter", <<>>, "", "bool", "True")
not_callable == [match_run EXCEPT !.id = "not_callable", !.callable = FALSE]

RunFilters ==
    {my_match_run, wf_first_filter, unhinted_filter, int_filter,
     unannotated_return_filter}

RunCells == {<<10>>, <<11>>}
ChannelCells == {<<1>>, <<2>>}
EndpointAndChannelCells == {<<104, 2>>, <<105, 1>>}

Grids(nrows, ncols, Cells) == [1..nrows -> [1..ncols -> Cells]]

Caps == {None} \cup {Some(m) : m \in 0..MaxPerAxes}

GridByRun ==
    /\ JustConstructed
    /\ \E nrows \in 1..MaxRows, ncols \in 1..MaxCols, cap \in Caps :
           \E filter_args \in Grids(nrows, ncols, RunCells) :
               GetGrid(nrows, ncols, None, Some(match_run), Some(filter_args), cap)

GridByEndpointAndChannel ==
    /\ JustConstructed
    /\ \E nrows \in 1..MaxRows, ncols \in 1..MaxCols, cap \in Caps :
           \E filter_args \in Grids(nrows, ncols, EndpointAndChannelCells) :
               GetGrid(nrows, ncols, None, Some(match_endpoint_and_channel),
                       Some(filter_args), cap)

GridByChannel ==
    /\ JustConstructed
    /\ \E ncols \in 1..MaxCols, cap \in Caps :
           \E filter_args \in Grids(1, ncols, ChannelCells) :
               GetGrid(1, ncols, None, Some(match_channel), Some(filter_args), cap)

\* Every callable on a grid of one row, with filter_args of the asked shape,
\* of another shape, or missing.
GridByAnyCallable ==
    /\ JustConstructed
    /\ \E ncols \in 1..MaxCols, cap \in {None, Some(5)} :
           \E wf_filter \in {None, Some(not_callable), Some(no_parameter_filter),
                             Some(my_match_endpoint_and_channel)}
                            \cup {Some(f) : f \in RunFilters},
              filter_args \in {None} \cup {Some(g) : g \in Grids(1, 1, RunCells)
                                                         \cup Grids(1, 2, RunCells)} :
               GetGrid(1, ncols, None, wf_filter,
                       IF wf_filter = Some(my_match_endpoint_and_channel) /\ filter_args # None
                       THEN Some([i \in 1..1 |-> [j \in 1..Len(filter_args[1][1]) |-> <<104, 1>>]])
                       ELSE filter_args,
                       cap)

GridContiguous ==
    /\ JustConstructed
    /\ \E nrows \in 0..MaxRows, ncols \in 0..MaxCols, wfs_per_axes \in 0..MaxPerAxes :
           \E wf_filter \in {None, Some(match_run), Some(no_parameter_filter)} :
               GetGrid(nrows, ncols, Some(wfs_per_axes), wf_filter, None, Some(5))

SpecGrid ==
    Init /\ [][\/ ConstructForGrid
               \/ GridByRun
               \/ GridByEndpointAndChannel
               \/ GridByChannel
               \/ GridByAnyCallable
               \/ GridContiguous]_vars

---------------------------------------------------------------------------
(* get_grid_of_wf_idcs: the claims.                                        *)

\* The errors get_grid_of_wf_idcs raises for a wf_filter it does not accept.
FilterContractErrors ==
    {Exception("WaveformSet.get_grid_of_wf_idcs()", code) : code \in {3, 4, 5}}

\* The three clauses of the contract on a predicate.
MeetsFilterContract(f) ==
    /\ f.callable
    /\ Len(f.parameters) > 0
    /\ At(f.parameters, 0) = "waveform"
    /\ f.annotation = "Waveform"
    /\ f.return_annotation = "bool"

FilteringCall ==
    /\ call.op = "get_grid_of_wf_idcs"
    /\ call.args.nrows >= 1
    /\ call.args.ncols >= 1
    /\ call.args.wfs_per_axes = None

\* C4: in filtering mode a predicate is accepted only if its first
\* parameter is named 'waveform', that parameter is annotated as Waveform
\* and its return annotation is bool; a predicate that breaks one of the
\* three clauses is rejected with FilterContractError, no grid returned.
C4_FilterContractEnforced ==
    (FilteringCall /\ call.args.wf_filter # None
        /\ ~MeetsFilterContract(call.args.wf_filter[1])) =>
            raised \in FilterContractErrors

\* What the code enforces: the name and the annotation of the first
\* parameter of a callable that has one.
NameAndAnnotationEnforced ==
    (FilteringCall /\ call.args.wf_filter # None
        /\ call.args.wf_filter[1].callable
        /\ Len(call.args.wf_filter[1].parameters) > 0
        /\ ~(/\ At(call.args.wf_filter[1].parameters, 0) = "waveform"
             /\ call.args.wf_filter[1].annotation = "Waveform")) =>
            raised \in FilterContractErrors

FastPathCall ==
    /\ FilteringCall
    /\ raised = NoError
    /\ call.args.wf_filter[1].id \in {match_run.id, match_endpoint_and_channel.id}

\* C5: for the by-run and the by-endpoint-and-channel predicates, every
\* collection, every filter_args grid and every cap, the grid the fast path
\* returns is the grid the general path returns for the same predicate,
\* filter_args and cap.
C5_FastPathsAgreeWithGeneralPath ==
    FastPathCall =>
        ret.grid = get_grid_of_wf_idcs_general(
                       waveforms,
                       get_2D_empty_nested_list(call.args.nrows, call.args.ncols),
                       call.args.wf_filter[1],
                       call.args.filter_args[1],
                       call.args.max_wfs_per_axes # None,
                       IF call.args.max_wfs_per_axes # None
                       THEN call.args.max_wfs_per_axes[1] ELSE 0)

\* A by-run grid with one slot cut at the cap and one slot skipped, its run
\* not being in runs.
C5_Witness ==
    /\ FastPathCall
    /\ call.args.wf_filter[1].id = match_run.id
    /\ call.args.max_wfs_per_axes = Some(1)
    /\ Len(waveforms) > 1
    /\ \E j \in 1..call.args.ncols :
          /\ At(call.args.filter_args[1][1][j], 0) \in runs
          /\ ret.grid[1][j] = <<0>>
          /\ Cardinality({k \in 1..Len(waveforms) :
                waveforms[k].RunNumber = At(call.args.filter_args[1][1][j], 0)}) > 1
    /\ \E j \in 1..call.args.ncols :
          /\ At(call.args.filter_args[1][1][j], 0) \notin runs
          /\ ret.grid[1][j] = <<>>

\* The call asked for wfs_per_axes indices per slot, with positive numbers
\* of rows, columns and indices.
ContiguousCall ==
    /\ call.op = "get_grid_of_wf_idcs"
    /\ call.args.wfs_per_axes # None
    /\ call.args.nrows >= 1
    /\ call.args.ncols >= 1
    /\ call.args.wfs_per_axes[1] >= 1

\* The list first, first + 1, ..., first + n - 1.
Consecutive(first, n) == [m \in 1..n |-> first + m - 1]

\* C14: with wfs_per_axes = k >= 1, R >= 1 rows and C >= 1 columns,
\* get_grid_of_wf_idcs returns, whatever the number of waveforms, a grid of
\* R rows of C slots whose slot [i][j] is the list k*(j + C*i), ...,
\* k*(j + C*i) + k - 1; indices past the last waveform are returned as well.
C14_ContiguousGrid ==
    ContiguousCall =>
        LET R == call.args.nrows
            C == call.args.ncols
            k == call.args.wfs_per_axes[1]
        IN  /\ raised = NoError
            /\ Len(ret.grid) = R
            /\ \A i \in 0..(R - 1) :
                  /\ Len(ret.grid[i + 1]) = C
                  /\ \A j \in 0..(C - 1) :
                        ret.grid[i + 1][j + 1] = Consecutive(k * (j + C * i), k)

\* The largest grid, asked of one waveform: its last slot holds indices of
\* waveforms the collection does not have.
C14_Witness ==
    /\ ContiguousCall
    /\ Len(waveforms) = 1
    /\ call.args.nrows = MaxRows
    /\ call.args.ncols = MaxCols
    /\ call.args.wfs_per_axes[1] = MaxPerAxes
    /\ ret.grid[MaxRows][MaxCols][MaxPerAxes] = MaxRows * MaxCols * MaxPerAxes - 1

\* The indices of the waveforms for which wf_filter(waveform, *args) holds.
Matching(wf_filter, args) ==
    {k \in 0..(Len(waveforms) - 1) : Apply(wf_filter, waveforms[k + 1], args)}

\* slot lists, in ascending order, the `length` smallest members of M.
IsAscendingPrefixOf(slot, M, length) ==
    /\ Len(slot) = length
    /\ \A p \in 1..Len(slot) : slot[p] \in M
    /\ \A p \in 1..(Len(slot) - 1) : slot[p] < slot[p + 1]
    /\ \A k \in M : (\E p \in 1..Len(slot) : k < slot[p]) =>
                        (\E p \in 1..Len(slot) : slot[p] = k)

FilteredGrid ==
    /\ FilteringCall
    /\ raised = NoError

\* C15: in a grid returned in filtering mode, every slot [i][j] lists in
\* ascending order the first min(cap, m) indices k for which
\* wf_filter(waveforms[k], *filter_args[i][j]) holds, m being the number of
\* such indices and cap max_wfs_per_axes; all m of them when
\* max_wfs_per_axes is None.  The cap counts in each slot apart, and a slot
\* with fewer than cap matches is returned as it is.
C15_SlotHoldsFirstMatchesUpToCap ==
    FilteredGrid =>
        \A i \in 1..call.args.nrows : \A j \in 1..call.args.ncols :
            LET M == Matching(call.args.wf_filter[1], call.args.filter_args[1][i][j])
                m == Cardinality(M)
                cap == call.args.max_wfs_per_axes
            IN  IsAscendingPrefixOf(ret.grid[i][j], M,
                    IF cap = None \/ m < cap[1] THEN m ELSE cap[1])

\* A grid by channel with the cap 1 on two waveforms of which both match one
\* slot, cut at the cap, and none matches another, left empty.
C15_Witness ==
    /\ FilteredGrid
    /\ call.args.wf_filter[1].id = match_channel.id
    /\ call.args.max_wfs_per_axes = Some(1)
    /\ \E j \in 1..call.args.ncols :
          /\ Cardinality(Matching(match_channel, call.args.filter_args[1][1][j])) = 2
          /\ ret.grid[1][j] = <<0>>
    /\ \E j \in 1..call.args.ncols : ret.grid[1][j] = <<>>

---------------------------------------------------------------------------
(* One call of compute_mean_waveform on a collection as constructed, over  *)
(* waveforms that differ in trace, time step and run.                      *)

MeanPool ==
    {Waveform(16, <<1, 0>>, 10, 104, 1), Waveform(32, <<0, 1>>, 10, 104, 1),
     Waveform(32, <<1, 2>>, 11, 104, 1)}

ConstructForMean ==
    \E wfs \in SeqsUpTo(MeanPool, MaxWfs) : Len(wfs) > 0 /\ Construct(wfs)

\* Entries of a wf_idcs list: every position of the longest collection, one
\* past its end, and the negative values a subscript accepts on it.
Idcs == (0 - MaxWfs)..MaxWfs

Selectors ==
    {match_run, my_match_run, wf_first_filter, unhinted_filter, int_filter,
     unannotated_return_filter}

MeanOfEvery ==
    /\ JustConstructed
    /\ ComputeMean(<<>>, None, None)

MeanWithSelector ==
    /\ JustConstructed
    /\ \/ \E wf_selector \in Selectors, run \in RunNumbers :
              ComputeMean(<<run>>, None, Some(wf_selector))
       \/ \E wf_selector \in {no_parameter_filter, not_callable} :
              ComputeMean(<<>>, None, Some(wf_selector))

MeanOfGiven ==
    /\ JustConstructed
    /\ \E wf_idcs \in SeqsUpTo(Idcs, MaxIdcs) :
           ComputeMean(<<>>, Some(wf_idcs), None)

MeanOfGivenWithSelector ==
    /\ JustConstructed
    /\ \E wf_idcs \in SeqsUpTo(Idcs, 1), wf_selector \in {match_run, int_filter},
          run \in RunNumbers :
           ComputeMean(<<run>>, Some(wf_idcs), Some(wf_selector))

SpecMean ==
    Init /\ [][\/ ConstructForMean
               \/ MeanOfEvery
               \/ MeanWithSelector
               \/ MeanOfGiven
               \/ MeanOfGivenWithSelector]_vars

---------------------------------------------------------------------------
(* Claims about the explicit-index mode.                                   *)

InRange(idx) == 0 <= idx /\ idx < Len(waveforms)

\* The element-wise sum of the traces at the positions idcs lists, all of
\* them in range.
RECURSIVE TraceSum(_)
TraceSum(idcs) ==
    IF idcs = <<>> THEN [s \in 1..points_per_wf |-> 0]
    ELSE LET rest == TraceSum(Tail(idcs))
         IN  [s \in 1..points_per_wf |-> waveforms[Head(idcs) + 1].Adcs[s] + rest[s]]

\* adcs is the element-wise arithmetic mean of those traces, every entry a
\* fraction in lowest terms.
IsTraceMean(adcs, idcs) ==
    /\ DOMAIN adcs = 1..points_per_wf
    /\ \A s \in 1..points_per_wf :
          /\ adcs[s][2] > 0
          /\ adcs[s][1] * Len(idcs) = TraceSum(idcs)[s] * adcs[s][2]
          /\ \A d \in 2..adcs[s][2] : ~(adcs[s][1] % d = 0 /\ adcs[s][2] % d = 0)

ExplicitIndexCall ==
    /\ call.op = "compute_mean_waveform"
    /\ call.args.wf_idcs # None
    /\ \E p \in 1..Len(call.args.wf_idcs[1]) : InRange(call.args.wf_idcs[1][p])

\* C2: in explicit-index mode, for a wf_idcs holding at least one index in
\* [0, len(records)), no error is raised, the provenance is the subsequence
\* of wf_idcs of the entries in [0, len(records)), in order and with
\* duplicates kept, and the mean is the element-wise arithmetic mean of the
\* traces at those positions, a duplicate counted once per occurrence.
C2_OutOfRangeSkippedDuplicatesKept ==
    ExplicitIndexCall =>
        LET kept == SelectSeq(call.args.wf_idcs[1], InRange)
        IN  /\ raised = NoError
            /\ mean_adcs_idcs = Some(kept)
            /\ ret.mean # None
            /\ IsTraceMean(ret.mean[1].Adcs, kept)

\* What holds of the code: the entries kept are those a list subscript
\* accepts, [-len(records), len(records)), a negative one counted from the end.
Subscriptable(idx) == 0 - Len(waveforms) <= idx /\ idx < Len(waveforms)
FromStart(idx) == IF idx < 0 THEN Len(waveforms) + idx ELSE idx

ExplicitIndexKeepsSubscriptable ==
    ExplicitIndexCall =>
        LET kept == SelectSeq(call.args.wf_idcs[1], Subscriptable)
        IN  /\ raised = NoError
            /\ mean_adcs_idcs = Some(kept)
            /\ ret.mean # None
            /\ IsTraceMean(ret.mean[1].Adcs, [p \in 1..Len(kept) |-> FromStart(kept[p])])

---------------------------------------------------------------------------
(* The life of a collection: constructed once, then analysed, partitioned  *)
(* and averaged in any order, any number of times.                         *)

LifePool ==
    {Waveform(16, <<1, 0>>, 10, 104, 1), Waveform(32, <<0, 1>>, 11, 104, 2)}

ConstructForLife ==
    \E wfs \in SeqsUpTo(LifePool, MaxWfs) : Len(wfs) > 0 /\ Construct(wfs)

LifeAnalyse ==
    \E label \in {"a", "b"}, overwrite \in BOOLEAN :
        Analyse(label, "standard_analyser", <<0, 1>>, 0, None, overwrite, "raise")

LifeGrid ==
    \/ \E run \in RunNumbers :
           GetGrid(1, 1, None, Some(match_run), Some(<<<<<<run>>>>>>), None)
    \/ \E wf_filter \in {my_match_run, int_filter} :
           GetGrid(1, 1, None, Some(wf_filter), Some(<<<<<<10>>>>>>), Some(1))
    \/ \E wfs_per_axes \in 0..1 :
           GetGrid(1, MaxCols, Some(wfs_per_axes), None, None, None)

\* No entry of an Adcs array exceeds MaxAdc.
WithinAdcRange(wfs) ==
    \A i \in 1..Len(wfs) : \A s \in 1..Len(wfs[i].Adcs) : wfs[i].Adcs[s] <= MaxAdc

LifeMeanOfEvery ==
    /\ phase = "ready"
    /\ WithinAdcRange(compute_mean_waveform_of_every_waveform(waveforms).wfs)
    /\ ComputeMean(<<>>, None, None)

LifeMeanWithSelector ==
    \E wf_selector \in {match_run, int_filter}, run \in RunNumbers :
        ComputeMean(<<run>>, None, Some(wf_selector))

LifeMeanOfGiven ==
    \E wf_idcs \in SeqsUpTo({0 - 1, 0, MaxWfs}, 1) :
        ComputeMean(<<>>, Some(wf_idcs), None)

Next ==
    \/ ConstructForLife
    \/ LifeAnalyse
    \/ LifeGrid
    \/ LifeMeanOfEvery
    \/ LifeMeanWithSelector
    \/ LifeMeanOfGiven

Spec == Init /\ [][Next]_vars

---------------------------------------------------------------------------
(* Claims about successive calls.                                          *)

MeanOfEveryCall(c) ==
    /\ c.op = "compute_mean_waveform"
    /\ c.args.wf_idcs = None
    /\ c.args.wf_selector = None

\* C1: two successive calls of compute_mean_waveform without wf_idcs and
\* without wf_selector, no other operation in between, return the same
\* averaged trace and the same provenance tuple.
C1_MeanOfEveryIsIdempotent ==
    [][(MeanOfEveryCall(call) /\ MeanOfEveryCall(call')) =>
            /\ ret'.mean = ret.mean
            /\ mean_adcs_idcs' = mean_adcs_idcs]_vars

\* The trace and the metadata of every record.
Records(wfs) ==
    [i \in 1..Len(wfs) |->
        [Adcs |-> wfs[i].Adcs, TimeStep_ns |-> wfs[i].TimeStep_ns,
         RunNumber |-> wfs[i].RunNumber, Endpoint |-> wfs[i].Endpoint,
         Channel |-> wfs[i].Channel]]

\* C3: a call of compute_mean_waveform or of get_grid_of_wf_idcs, successful
\* or failed, leaves the trace and the metadata of every record as they
\* were; only the constructor and analyse change the records.
C3_MeanAndGridLeaveRecordsAlone ==
    [][/\ call'.op \in {"compute_mean_waveform", "get_grid_of_wf_idcs"} =>
            Records(waveforms') = Records(waveforms)
       /\ waveforms' # waveforms => call'.op \in {"__init__", "analyse"}]_vars

\* What holds of the code: the calls other than the mean of every waveform
\* leave the records alone, and that one changes the trace of waveform 0 only.
MeanOfEveryWritesOnlyFirstTrace ==
    [][/\ (call'.op \in {"compute_mean_waveform", "get_grid_of_wf_idcs"}
            /\ ~MeanOfEveryCall(call')) => waveforms' = waveforms
       /\ MeanOfEveryCall(call') =>
            /\ Len(waveforms') = Len(waveforms)
            /\ \A i \in 2..Len(waveforms) : waveforms'[i] = waveforms[i]
            /\ waveforms' = [waveforms EXCEPT ![1].Adcs = waveforms'[1].Adcs]]_vars

---------------------------------------------------------------------------
(* Claims about the three modes of compute_mean_waveform.                  *)

MeanCall(c) == c.op = "compute_mean_waveform"

\* The exceptions of the two cases with nothing to average.
NoValidIndexError == Exception("WaveformSet.compute_mean_waveform()", 5)
NoMatchError == Exception("WaveformSet.__compute_mean_waveform_with_selector()", 1)

\* The three clauses of the contract on a selector.
MeetsSelectorContract(f) ==
    /\ f.callable
    /\ f.parameters # <<>>
    /\ Head(f.parameters) = "waveform"
    /\ f.annotation = "Waveform"
    /\ f.return_annotation = "bool"

\* The indices, in ascending order, of the waveforms wfs for which
\* wf_selector(waveform, *args) holds.
RECURSIVE SelectedFrom(_, _, _, _)
SelectedFrom(wfs, i, wf_selector, args) ==
    IF i > Len(wfs) THEN <<>>
    ELSE IF Apply(wf_selector, wfs[i], args)
         THEN <<i - 1>> \o SelectedFrom(wfs, i + 1, wf_selector, args)
         ELSE SelectedFrom(wfs, i + 1, wf_selector, args)

\* s is made of entries of t.
EntriesOf(s, t) == \A p \in 1..Len(s) : \E q \in 1..Len(t) : s[p] = t[q]

\* C16: an index list given with or without a selector is what is averaged,
\* the selector being neither checked nor called: the call raises at most
\* for a list without a valid index and its provenance is made of entries
\* of the list.  Without a list, a selector given is checked and decides
\* the provenance.  Only without both are all the waveforms averaged.
C16_ModeByArgumentPrecedence ==
    [][MeanCall(call') =>
         LET a == call'.args
             n == Len(waveforms)
         IN  IF a.wf_idcs # None
             THEN /\ raised' \in {NoError, NoValidIndexError}
                  /\ raised' = NoValidIndexError <=>
                        ~\E p \in 1..Len(a.wf_idcs[1]) : InRange(a.wf_idcs[1][p])
                  /\ raised' = NoError =>
                        /\ mean_adcs_idcs'[1] # <<>>
                        /\ EntriesOf(mean_adcs_idcs'[1], a.wf_idcs[1])
             ELSE IF a.wf_selector # None
             THEN IF ~MeetsSelectorContract(a.wf_selector[1])
                  THEN raised' \notin {NoError, NoMatchError}
                  ELSE LET chosen == SelectedFrom(waveforms, 1, a.wf_selector[1], a.args)
                       IN  IF chosen = <<>> THEN raised' = NoMatchError
                           ELSE raised' = NoError /\ mean_adcs_idcs' = Some(chosen)
             ELSE /\ raised' = NoError
                  /\ mean_adcs_idcs' = Some([k \in 1..n |-> k - 1])]_vars

\* An index list given together with a selector that breaks the contract
\* and matches another waveform than the list names.
C16_Witness ==
    /\ MeanCall(call)
    /\ call.args.wf_idcs = Some(<<1>>)
    /\ call.args.wf_selector = Some(int_filter)
    /\ Len(waveforms) = 2
    /\ SelectedFrom(waveforms, 1, int_filter, call.args.args) = <<0>>
    /\ raised = NoError
    /\ mean_adcs_idcs = Some(<<1>>)

\* C17: without wf_idcs and wf_selector, on n >= 1 waveforms,
\* compute_mean_waveform returns a trace whose sample s is the sum over
\* i in 0..n-1 of waveforms[i].Adcs[s], as the traces were before the call,
\* divided by n, and the provenance (0, 1, ..., n-1).
C17_MeanOfEveryWaveform ==
    [][(MeanCall(call') /\ MeanOfEveryCall(call')) =>
         LET everyone == [k \in 1..Len(waveforms) |-> k - 1]
         IN  /\ raised' = NoError
             /\ ret'.mean # None
             /\ IsTraceMean(ret'.mean[1].Adcs, everyone)
             /\ mean_adcs_idcs' = Some(everyone)]_vars

\* The mean of two waveforms asked for a second time: the trace of waveform
\* 0 is no longer the one given to the constructor.
C17_Witness ==
    /\ MeanOfEveryCall(call)
    /\ Len(waveforms) = 2
    /\ waveforms[1].Adcs = <<1, 2>>
    /\ waveforms[2].Adcs = <<0, 1>>
    /\ ret.mean[1].Adcs = <<<<1, 2>>, <<1, 1>>>>

PredicateCall(c) ==
    /\ MeanCall(c)
    /\ c.args.wf_idcs = None
    /\ c.args.wf_selector # None

\* C18: without wf_idcs, a selector is accepted only if its first parameter
\* is named 'waveform' and hinted as Waveform and its return annotation is
\* bool; otherwise the call raises before the selector is called on any
\* waveform.  When it is accepted and holds of a waveform, the provenance is
\* the ascending tuple of the indices i for which
\* wf_selector(waveforms[i], *args) holds and the mean is the element-wise
\* arithmetic mean of the traces of exactly those waveforms.
C18_PredicateMode ==
    [][PredicateCall(call') =>
         LET a == call'.args
             chosen == SelectedFrom(waveforms, 1, a.wf_selector[1], a.args)
         IN  IF ~MeetsSelectorContract(a.wf_selector[1])
             THEN /\ raised' \notin {NoError, NoMatchError}
                  /\ ret' = NoReturn
                  /\ UNCHANGED <<mean_adcs, mean_adcs_idcs>>
             ELSE chosen # <<>> =>
                    /\ raised' = NoError
                    /\ mean_adcs_idcs' = Some(chosen)
                    /\ ret'.mean # None
                    /\ IsTraceMean(ret'.mean[1].Adcs, chosen)]_vars

\* A selector written by the caller that holds of the second of two
\* waveforms only.
C18_Witness ==
    /\ PredicateCall(call)
    /\ call.args.wf_selector = Some(my_match_run)
    /\ Len(waveforms) = 2
    /\ raised = NoError
    /\ mean_adcs_idcs = Some(<<1>>)
    /\ ret.mean[1].Adcs = [s \in 1..2 |-> <<waveforms[2].Adcs[s], 1>>]

\* The call gave a list without an index in [0, len(waveforms)).
NoValidIndexGiven(a) ==
    /\ a.wf_idcs # None
    /\ ~\E p \in 1..Len(a.wf_idcs[1]) : InRange(a.wf_idcs[1][p])

\* The call gave no list and a selector that is accepted and holds of no
\* waveform.
NoWaveformSelected(a) ==
    /\ a.wf_idcs = None
    /\ a.wf_selector # None
    /\ MeetsSelectorContract(a.wf_selector[1])
    /\ SelectedFrom(waveforms, 1, a.wf_selector[1], a.args) = <<>>

\* C19: compute_mean_waveform raises for an empty selection in exactly two
\* cases: an accepted selector that holds of no waveform, and a wf_idcs that
\* is empty or holds no index i with 0 <= i < len(waveforms); in the second
\* case nothing has been read or summed, and in both the waveforms and the
\* cached mean are as they were.
C19_EmptySelectionErrors ==
    [][MeanCall(call') =>
         /\ raised' = NoValidIndexError <=> NoValidIndexGiven(call'.args)
         /\ raised' = NoMatchError <=> NoWaveformSelected(call'.args)
         /\ raised' \in {NoValidIndexError, NoMatchError} =>
                /\ ret' = NoReturn
                /\ waveforms' = waveforms
                /\ UNCHANGED <<mean_adcs, mean_adcs_idcs>>]_vars

\* A list whose entries are all below zero or past the end, on two waveforms.
C19_Witness ==
    /\ MeanCall(call)
    /\ Len(waveforms) = 2
    /\ call.args.wf_idcs = Some(<<0 - 1, 2>>)
    /\ raised = NoValidIndexError
    /\ mean_adcs = None

\* The waveform an entry of the provenance names.  The explicit-index mode
\* lets the entries -len(waveforms)..-1 through; such an entry names a
\* waveform counted from the end, as the subscript does.
Named(idx) == waveforms[FromStart(idx) + 1]

\* C20: in every mode the time step of the trace compute_mean_waveform
\* returns is the time step of the waveform the first entry of the returned
\* provenance names; the time steps of the other waveforms averaged, equal
\* to it or not, play no part.
C20_TimeStepOfFirstContributor ==
    [][(MeanCall(call') /\ raised' = NoError) =>
         /\ ret'.mean # None
         /\ mean_adcs_idcs' # None
         /\ mean_adcs_idcs'[1] # <<>>
         /\ Subscriptable(mean_adcs_idcs'[1][1])
         /\ ret'.mean[1].TimeStep_ns = Named(mean_adcs_idcs'[1][1]).TimeStep_ns]_vars

\* The second of two waveforms averaged before the first, their time steps
\* being different.
C20_Witness ==
    /\ MeanCall(call)
    /\ raised = NoError
    /\ call.args.wf_idcs = Some(<<1, 0>>)
    /\ mean_adcs_idcs = Some(<<1, 0>>)
    /\ waveforms[1].TimeStep_ns # waveforms[2].TimeStep_ns
    /\ ret.mean[1].TimeStep_ns = waveforms[2].TimeStep_ns

---------------------------------------------------------------------------
(* Claims about the cached mean over the life of a collection.             *)

\* The entries of the call's arguments that the call averages, in the order
\* it averages them: the subscriptable entries of wf_idcs, else the positions
\* the selector holds of, else every position.
Contributors(a) ==
    IF a.wf_idcs # None THEN SelectSeq(a.wf_idcs[1], Subscriptable)
    ELSE IF a.wf_selector # None
         THEN SelectedFrom(waveforms, 1, a.wf_selector[1], a.args)
    ELSE [k \in 1..Len(waveforms) |-> k - 1]

SuccessfulMean == MeanCall(call') /\ raised' = NoError

\* C21: __mean_adcs and __mean_adcs_idcs are None from construction until
\* the first successful call of compute_mean_waveform, whatever calls of
\* analyse and get_grid_of_wf_idcs are made; after every successful call
\* they are the trace that call returned and the tuple of the indices that
\* call averaged, nothing of an earlier mean being kept.
C21_CacheIsTheLastSuccessfulMean ==
    [][/\ phase = "new" => (mean_adcs = None /\ mean_adcs_idcs = None)
       /\ call'.op = "__init__" => (mean_adcs' = None /\ mean_adcs_idcs' = None)
       /\ (mean_adcs = None /\ mean_adcs_idcs = None /\ ~SuccessfulMean) =>
             (mean_adcs' = None /\ mean_adcs_idcs' = None)
       /\ SuccessfulMean =>
             /\ ret'.mean # None
             /\ mean_adcs' = ret'.mean
             /\ mean_adcs_idcs' = Some(Contributors(call'.args))]_vars

\* The mean of the first of two waveforms, asked for after the mean of
\* both, which left its sum in the trace of waveform 0.
C21_Witness ==
    /\ MeanCall(call)
    /\ raised = NoError
    /\ call.args.wf_idcs = Some(<<0>>)
    /\ Len(waveforms) = 2
    /\ waveforms[1].Adcs = <<1, 1>>
    /\ mean_adcs = ret.mean
    /\ mean_adcs_idcs = Some(<<0>>)


\* The error compute_mean_waveform raises on a collection without waveforms.
EmptyCollectionError == Exception("WaveformSet.compute_mean_waveform()", 1)

\* C22: a collection without waveforms is a state a collection can be in:
\* WaveformSet() gives one, and on it compute_mean_waveform raises
\* EmptyCollectionError without wf_idcs and wf_selector, with a wf_selector,
\* even one that breaks the contract, and with a wf_idcs, even one without a
\* valid index.
C22_EmptyCollectionFailsEveryMean ==
    ConstructedFrom(<<>>) =>
        /\ phase = "ready"
        /\ waveforms = <<>>
        /\ \A wf_idcs \in {None, Some(<<>>), Some(<<0>>)} :
           \A wf_selector \in {None, Some(match_run), Some(int_filter), Some(not_callable)} :
              compute_mean_waveform(waveforms, points_per_wf, <<10>>, wf_idcs, wf_selector).exc
                  = EmptyCollectionError

\* What holds of the code: every collection constructed has a waveform, so
\* the check of lines 1432-1435 never fires on one.
NoCollectionIsEmpty == phase = "ready" => Len(waveforms) > 0


---------------------------------------------------------------------------
(* is_valid_iterator_value on collections of every length within the       *)
(* bounds, asked about the integers from below -len(waveforms) to past     *)
(* len(waveforms).                                                         *)

IteratorValues == (0 - MaxWfs - 1)..(MaxWfs + 1)

AskIteratorValue == \E iterator_value \in IteratorValues : IsValidIteratorValue(iterator_value)

SpecIterator == Init /\ [][ConstructAny \/ AskIteratorValue]_vars

\* C23: for every integer i, negative, zero or positive,
\* is_valid_iterator_value(i) returns True if 0 <= i < len(waveforms) and
\* False otherwise, and raises nothing.
C23_ValidIffWithinTheCollection ==
    call.op = "is_valid_iterator_value" =>
        LET i == call.args.iterator_value
        IN  /\ raised = NoError
            /\ ret.output \in {<<TRUE>>, <<FALSE>>}
            /\ ret.output = <<TRUE>> <=> (0 <= i /\ i < Len(waveforms))

\* -1, which a list subscript accepts, asked of a collection of two.
C23_Witness ==
    /\ call.op = "is_valid_iterator_value"
    /\ call.args.iterator_value = 0 - 1
    /\ Len(waveforms) = 2
    /\ ret.output = <<FALSE>>


---------------------------------------------------------------------------
(* A collection whose waveforms the caller changes after construction:     *)
(* any number of assignments to run numbers, endpoints and channels, then  *)
(* one call.                                                               *)

\* No method has been called on the collection since it was constructed.
NoCallYet == call.op \in {"__init__", "external"}

FrameChange ==
    /\ NoCallYet
    /\ \E idx \in 0..(MaxWfs - 1) :
          \/ \E run \in RunNumbers : ExternalChange(idx, "RunNumber", run)
          \/ \E endpoint \in Endpoints : ExternalChange(idx, "Endpoint", endpoint)
          \/ \E channel \in Channels : ExternalChange(idx, "Channel", channel)

FrameAnalyse ==
    /\ NoCallYet
    /\ Analyse("a", "standard_analyser", <<0, 1>>, 0, None, FALSE, "raise")

FrameGridByRun ==
    /\ NoCallYet
    /\ \E cap \in {None, Some(1)}, filter_args \in Grids(1, MaxCols, RunCells) :
           GetGrid(1, MaxCols, None, Some(match_run), Some(filter_args), cap)

FrameGridByEndpointAndChannel ==
    /\ NoCallYet
    /\ \E cap \in {None, Some(1)}, endpoint \in Endpoints, channel \in Channels :
           GetGrid(1, 1, None, Some(match_endpoint_and_channel),
                   Some(<<<<<<endpoint, channel>>>>>>), cap)

FrameMean ==
    /\ NoCallYet
    /\ \/ ComputeMean(<<>>, None, None)
       \/ \E run \in RunNumbers : ComputeMean(<<run>>, None, Some(match_run))
       \/ ComputeMean(<<>>, Some(<<0>>), None)

SpecFrame ==
    Init /\ [][\/ ConstructForLife
               \/ FrameChange
               \/ FrameAnalyse
               \/ FrameGridByRun
               \/ FrameGridByEndpointAndChannel
               \/ FrameMean]_vars

\* The attributes of a waveform that tell which record it is and where it
\* was taken.
Metadata(wf) ==
    [TimeStep_ns |-> wf.TimeStep_ns, RunNumber |-> wf.RunNumber,
     Endpoint |-> wf.Endpoint, Channel |-> wf.Channel]

\* C24: once a collection is constructed, no call of analyse, of
\* get_grid_of_wf_idcs or of compute_mean_waveform, and no assignment by the
\* caller to the run number, endpoint or channel of one of its waveforms,
\* adds, removes or moves a waveform or changes points_per_wf, runs or
\* available_channels: a call leaves every position with the waveform it
\* held and an assignment changes nothing but the attribute assigned.
C24_SequenceAndDerivedStateKeptAfterConstruction ==
    [][call'.op # "__init__" =>
         /\ Len(waveforms') = Len(waveforms)
         /\ points_per_wf' = points_per_wf
         /\ runs' = runs
         /\ available_channels' = available_channels
         /\ call'.op # "external" =>
               \A i \in 1..Len(waveforms) : Metadata(waveforms'[i]) = Metadata(waveforms[i])
         /\ call'.op = "external" =>
               \A i \in 1..Len(waveforms) :
                  /\ waveforms'[i].Adcs = waveforms[i].Adcs
                  /\ waveforms'[i].TimeStep_ns = waveforms[i].TimeStep_ns
                  /\ waveforms'[i].Analyses = waveforms[i].Analyses]_vars

\* A grid asked for after the only waveform was moved to a run, an endpoint
\* and a channel the collection was not constructed with.
C24_Witness ==
    /\ call.op = "get_grid_of_wf_idcs"
    /\ Len(waveforms) = 1
    /\ waveforms[1].RunNumber \notin runs
    /\ waveforms[1].Endpoint \notin DOMAIN available_channels
    /\ \A e \in DOMAIN available_channels : waveforms[1].Channel \notin available_channels[e]


---------------------------------------------------------------------------
(* get_endpoint_and_channel on every identifier of five decimal digits, and *)
(* on the shorter and the longer ones next to them.                        *)

PackedEndpoints == 100..999
PackedChannels == 0..99

Identifiers ==
    {100 * e + c : e \in PackedEndpoints, c \in PackedChannels}
        \cup {0, 7, 99, 104, 9999, 100000, 104001}

\* One call: the method is static and reads nothing but its argument, so
\* a call after another one returns what it returns as the first.
Decode ==
    /\ call = NoCall
    /\ \E input \in Identifiers : GetEndpointAndChannel(input)

SpecDecode == Init /\ [][Decode]_vars

\* C25: for every endpoint e in 100..999 and every channel c in 0..99,
\* get_endpoint_and_channel(100 * e + c) raises nothing and returns (e, c):
\* the endpoint is the integer the first three decimal digits spell and the
\* channel the integer the last two spell.
C25_DecodesPackedIdentifier ==
    call.op = "get_endpoint_and_channel" =>
        LET e == call.args.input \div 100
            c == call.args.input % 100
        IN  (e \in PackedEndpoints /\ c \in PackedChannels) =>
                (raised = NoError /\ ret.output = <<e, c>>)

\* A channel below ten, spelt with a leading zero.
C25_Witness ==
    /\ call.op = "get_endpoint_and_channel"
    /\ call.args.input = 100 * 104 + 7
    /\ ret.output = <<104, 7>>


\* The run, or the endpoint and the channel, a slot of a fast path asks for
\* is in runs, or in available_channels.
TargetIsKnown(wf_filter, args) ==
    IF wf_filter.id = match_run.id THEN args[1] \in runs
    ELSE /\ args[1] \in DOMAIN available_channels
         /\ args[2] \in available_channels[args[1]]

\* C26: in a grid returned for match_run or match_endpoint_and_channel, a
\* slot whose run is not in runs, or whose endpoint is no key of
\* available_channels, or whose channel is not in the set of that endpoint,
\* is left empty whatever the waveforms hold; every other slot lists in
\* ascending order, from waveform 0 on, the indices the predicate holds of,
\* up to the cap.
C26_SlotScannedIffTargetIsKnown ==
    FastPathCall =>
        \A i \in 1..call.args.nrows : \A j \in 1..call.args.ncols :
            LET args == call.args.filter_args[1][i][j]
                M == Matching(call.args.wf_filter[1], args)
                m == Cardinality(M)
                cap == call.args.max_wfs_per_axes
            IN  IF ~TargetIsKnown(call.args.wf_filter[1], args)
                THEN ret.grid[i][j] = <<>>
                ELSE IsAscendingPrefixOf(ret.grid[i][j], M,
                         IF cap = None \/ m < cap[1] THEN m ELSE cap[1])

\* A slot left empty for a run that is not in runs and that the only
\* waveform has been given, next to a slot scanned for a run that is in
\* runs and that no waveform has any more.
C26_Witness ==
    /\ FastPathCall
    /\ call.args.wf_filter = Some(match_run)
    /\ Len(waveforms) = 1
    /\ runs = {10}
    /\ waveforms[1].RunNumber = 11
    /\ call.args.filter_args = Some(<<<<<<11>>, <<10>>>>>>)
    /\ ret.grid = <<<<<<>>, <<>>>>>>


---------------------------------------------------------------------------
(* get_grid_of_wf_idcs with wfs_per_axes given, together with every kind   *)
(* of wf_filter, filter_args and max_wfs_per_axes.                         *)

ContiguousWithAnyFilter ==
    /\ JustConstructed
    /\ \E nrows \in 0..MaxRows, ncols \in 0..MaxCols, wfs_per_axes \in 0..MaxPerAxes :
       \E wf_filter \in {None, Some(match_run), Some(my_match_run), Some(not_callable),
                         Some(no_parameter_filter), Some(unhinted_filter)},
          filter_args \in {None, Some(<<<<<<10>>>>>>)},
          max_wfs_per_axes \in {None, Some(0), Some(1)} :
           GetGrid(nrows, ncols, Some(wfs_per_axes), wf_filter, filter_args,
                   max_wfs_per_axes)

SpecContiguous == Init /\ [][ConstructForLife \/ ContiguousWithAnyFilter]_vars

\* C27: when wfs_per_axes is given, what get_grid_of_wf_idcs raises or
\* returns is decided by nrows, ncols and wfs_per_axes alone: the grid of
\* consecutive indices when the three are positive, the error for the
\* number of rows and columns or the one for wfs_per_axes otherwise.
\* wf_filter, filter_args and max_wfs_per_axes are not looked at: a
\* wf_filter that is missing, not callable or against the contract, a
\* filter_args that is missing or of another shape and a max_wfs_per_axes
\* below 1 raise nothing.
C27_ContiguousModeIgnoresFilter ==
    (call.op = "get_grid_of_wf_idcs" /\ call.args.wfs_per_axes # None) =>
        LET R == call.args.nrows
            C == call.args.ncols
            k == call.args.wfs_per_axes[1]
        IN  IF R < 1 \/ C < 1
            THEN raised = Exception("WaveformSet.get_grid_of_wf_idcs()", 1)
            ELSE IF k < 1
            THEN raised = Exception("WaveformSet.get_grid_of_wf_idcs()", 2)
            ELSE /\ raised = NoError
                 /\ ret.grid = [i \in 1..R |-> [j \in 1..C |->
                                   Consecutive(k * ((j - 1) + C * (i - 1)), k)]]

\* A grid returned for a wf_filter that is not callable, no filter_args and
\* a max_wfs_per_axes of 0.
C27_Witness ==
    /\ call.op = "get_grid_of_wf_idcs"
    /\ call.args.wfs_per_axes = Some(MaxPerAxes)
    /\ call.args.wf_filter = Some(not_callable)
    /\ call.args.filter_args = None
    /\ call.args.max_wfs_per_axes = Some(0)
    /\ raised = NoError
    /\ Len(ret.grid) = MaxRows


---------------------------------------------------------------------------
(* Claims about the cached provenance.                                     *)

\* C28: whenever __mean_adcs_idcs is not None it is a tuple that is not
\* empty and whose every entry i satisfies is_valid_iterator_value(i), that
\* is 0 <= i < len(waveforms).
C28_CachedProvenanceIsValid ==
    mean_adcs_idcs # None =>
        /\ mean_adcs_idcs[1] # <<>>
        /\ \A p \in 1..Len(mean_adcs_idcs[1]) :
              /\ InRange(mean_adcs_idcs[1][p])
              /\ is_valid_iterator_value(waveforms, mean_adcs_idcs[1][p])

\* What holds of the code: the tuple is not empty and every entry is one a
\* list subscript accepts, -len(waveforms) <= i < len(waveforms), at least
\* one being in range.
CachedProvenanceIsSubscriptable ==
    mean_adcs_idcs # None =>
        /\ mean_adcs_idcs[1] # <<>>
        /\ \A p \in 1..Len(mean_adcs_idcs[1]) : Subscriptable(mean_adcs_idcs[1][p])
        /\ \E p \in 1..Len(mean_adcs_idcs[1]) : InRange(mean_adcs_idcs[1][p])


\* C29: a call of compute_mean_waveform that raises, for a selector against
\* the contract, for a selector that holds of no waveform or for a wf_idcs
\* without a valid index, returns nothing and leaves __mean_adcs and
\* __mean_adcs_idcs as they were: None when no mean had been computed, the
\* result of the last successful call otherwise.
C29_FailedMeanKeepsTheCache ==
    [][(MeanCall(call') /\ raised' # NoError) =>
         /\ ret' = NoReturn
         /\ mean_adcs' = mean_adcs
         /\ mean_adcs_idcs' = mean_adcs_idcs]_vars

\* A selector that holds of no waveform, given to a collection that has
\* cached the mean of waveform 0.
C29_Witness ==
    /\ MeanCall(call)
    /\ raised = NoMatchError
    /\ mean_adcs # None
    /\ mean_adcs_idcs = Some(<<0>>)


\* C30: __mean_adcs and __mean_adcs_idcs are both None or both set; they
\* change only together, in a successful call of compute_mean_waveform that
\* sets the one to the trace it returns and the other to the indices it
\* averaged, that trace being the mean of the traces those indices named
\* when the call was made; and the cached trace has points_per_wf samples.
C30_CachedTraceAndProvenanceGoTogether ==
    [][/\ (mean_adcs = None) <=> (mean_adcs_idcs = None)
       /\ (mean_adcs' = None) <=> (mean_adcs_idcs' = None)
       /\ mean_adcs' # None => Len(mean_adcs'[1].Adcs) = points_per_wf'
       /\ (mean_adcs' # mean_adcs \/ mean_adcs_idcs' # mean_adcs_idcs) =>
             LET averaged == Contributors(call'.args)
             IN  /\ SuccessfulMean
                 /\ mean_adcs' = ret'.mean
                 /\ mean_adcs_idcs' = Some(averaged)
                 /\ IsTraceMean(mean_adcs'[1].Adcs,
                                [p \in 1..Len(averaged) |-> FromStart(averaged[p])])]_vars

\* The mean of two waveforms, still cached after a later call of analyse.
C30_Witness ==
    /\ call.op = "analyse"
    /\ mean_adcs # None
    /\ mean_adcs_idcs = Some(<<0, 1>>)
    /\ Len(mean_adcs[1].Adcs) = points_per_wf
    /\ points_per_wf = 2

=============================================================================
